---- MODULE Spec2Model ----
(***************************************************************************)
(* A model of the LSNP peer of CSNETWK-MCO3: the token module              *)
(* (src/utils/tokens.py), the controller's receive dispatcher and its      *)
(* ACK-retry send operations (src/manager/lsnp_controller.py), and the     *)
(* file-transfer status machines (src/manager/file_manager.py,             *)
(* src/protocol/types/files/file_transfer.py,                              *)
(* src/utils/progress_tracker.py).                                         *)
(*                                                                         *)
(* Conventions.  A UserID "name@ip" is the sequence <<name, ip>>, the      *)
(* result of splitting it at "@"; a string without "@" is <<name>>.  A     *)
(* token "a|b|c" is the sequence of its "|"-separated parts.  A python     *)
(* dict is a function whose DOMAIN is its key set.                         *)
(***************************************************************************)
EXTENDS Integers, Sequences, FiniteSets, TLC

VARIABLES
    now,          \* int(time.time()), seconds
    ctl,          \* process -> state of that LSNP process (controller + module globals)
    issued,       \* tokens handed out by generate_token: [token, t0, ttl]
    revoked,      \* tokens for which a revocation was requested (either entry point)
    last_op,      \* the last token-module call: [op, token, ttl]
    sent,         \* datagrams put on the wire by the last step: <<[to, kv], ...>>
    lastLog,      \* what the last step reported to the log / the caller
    net,          \* the LAN: datagrams in flight and the number lost so far
    fm            \* a FileManager with its transfer manager, chunk manager and tracker

vars == <<now, ctl, issued, revoked, last_op, sent, lastLog, net, fm>>

-----------------------------------------------------------------------------
(* Program constants (src/config/config.py).                               *)
TOKEN_TTL == 600
RETRY_COUNT == 3
RETRY_INTERVAL == 2
MAX_CHUNK_SIZE == 1024

(* Bounds of the model.                                                    *)
MaxNow == 902
MaxIssued == 1

-----------------------------------------------------------------------------
(* Dict helpers.                                                           *)
Put(m, k, v) == [x \in (DOMAIN m) \cup {k} |-> IF x = k THEN v ELSE m[x]]
Del(m, k) == [x \in (DOMAIN m) \ {k} |-> m[x]]

(* The processes of the model and their identities.                        *)
Procs == {"A", "B"}
IpA == "10.0.0.2"
IpB == "10.0.0.3"
IpM == "10.0.0.9"
Alice == <<"alice", IpA>>
Bob == <<"bob", IpB>>
UserOf(p) == IF p = "A" THEN Alice ELSE Bob
IpOfProc(p) == IF p = "A" THEN IpA ELSE IpB

Scopes == {"chat", "follow", "unfollow", "post", "like", "file", "group", "game"}

-----------------------------------------------------------------------------
(* src/utils/tokens.py                                                     *)

\* generate_token: the ttl argument is accepted and not used; the second
\* part is the issue time.
generate_token(user_id, scope, ttl) == <<user_id, now, scope>>

validate_token_noscope(token, required_scope, blacklist) ==
    IF token \in blacklist THEN FALSE
    ELSE IF Len(token) # 3 THEN FALSE
    ELSE IF now - token[2] > TOKEN_TTL THEN FALSE
    ELSE TRUE

\* validate_token: blacklist, then split("|") into exactly three parts (anything
\* else raises and is caught: False), then age against TOKEN_TTL, then scope.
validate_token(token, required_scope, blacklist) ==
    IF token \in blacklist THEN FALSE
    ELSE IF Len(token) # 3 THEN FALSE
    ELSE IF now - token[2] > TOKEN_TTL THEN FALSE
    ELSE token[3] = required_scope

\* revoke_token: token_blacklist[token] = True
revoke_token(token, blacklist) == blacklist \cup {token}

-----------------------------------------------------------------------------
(* State of one process.                                                   *)
NameOf(p) == IF p = "A" THEN "Alice" ELSE "Bob"
EmptyMap == [x \in {} |-> 0]

\* where the command thread of a process stands: idle, blocked in the wait of
\* a retry loop (pc = "wait"), or back from an operation (pc = "done") with
\* what that operation did: transmissions, start and end time, and the
\* success and failure reports it gave the user
NoFile == [filename |-> "", filesize |-> 0, blocks |-> <<>>]
IdleOp == [kind |-> "idle", pc |-> "idle", to |-> <<"">>, message_id |-> "",
           rcpts |-> <<>>, rcpt |-> 0, gid |-> "", file |-> NoFile,
           message_map |-> EmptyMap,
           attempt |-> 0, sends |-> 0,
           t0 |-> 0, t1 |-> 0, success |-> 0, failure |-> 0]

\* LSNPController.__init__ plus the module globals the process owns
\* (tokens.token_blacklist) and the downloads directory it writes to.
InitCtl(p) == [
    full_user_id         |-> UserOf(p),
    display_name         |-> NameOf(p),
    verbose              |-> TRUE,
    token_blacklist      |-> {},
    peer_map             |-> EmptyMap,
    inbox                |-> <<>>,
    groups               |-> <<>>,
    followers            |-> <<>>,
    following            |-> {},
    post_likes           |-> {},
    ack_events           |-> EmptyMap,
    active_transfers     |-> EmptyMap,
    pending_offers       |-> EmptyMap,
    file_response_events |-> EmptyMap,
    file_responses       |-> EmptyMap,
    tictactoe_games      |-> EmptyMap,
    downloads            |-> EmptyMap,
    listening            |-> TRUE,
    op                   |-> IdleOp ]

\* nothing on the wire
EmptyNet == [frames |-> {}, lost |-> 0]

\* FileManager.__init__: no sessions and no pending offers; its
\* FileTransferManager has no transfers, the FileChunkManager no files and
\* the ProgressTracker tracks nothing
InitFm == [
    active_sessions  |-> EmptyMap,
    pending_offers   |-> {},
    active_transfers |-> EmptyMap,
    active_files     |-> EmptyMap,
    transfers        |-> EmptyMap ]

TokScopes == {"chat", "file"}
TokTTLs == {300, 600}
TickSteps == {300, 301}
NoOp == [op |-> "none", token |-> <<>>, ttl |-> 0]

TokInit ==
    /\ now = 0
    /\ ctl = [p \in Procs |-> InitCtl(p)]
    /\ issued = {}
    /\ revoked = {}
    /\ last_op = NoOp
    /\ sent = <<>>
    /\ lastLog = "NONE"
    /\ net = EmptyNet
    /\ fm = InitFm

\* time passes
Tick ==
    /\ \E d \in TickSteps : now + d <= MaxNow /\ now' = now + d
    /\ last_op' = NoOp
    /\ UNCHANGED <<ctl, issued, revoked, sent, lastLog, net, fm>>

\* a caller in process B obtains a token
GenerateToken ==
    \E s \in TokScopes, ttl \in TokTTLs :
        LET t == generate_token(UserOf("B"), s, ttl) IN
        /\ Cardinality(issued \cup {[token |-> t, t0 |-> now, ttl |-> ttl]}) <= MaxIssued
        /\ issued' = issued \cup {[token |-> t, t0 |-> now, ttl |-> ttl]}
        /\ last_op' = [op |-> "generate", token |-> t, ttl |-> ttl]
        /\ UNCHANGED <<now, ctl, revoked, sent, lastLog, net, fm>>

TokenUniverse == {r.token : r \in issued} \cup {<<"garbage">>}

\* a caller in process B calls tokens.revoke_token
RevokeToken ==
    \E t \in TokenUniverse :
        /\ ctl' = [ctl EXCEPT !["B"].token_blacklist = revoke_token(t, @)]
        /\ revoked' = revoked \cup {t}
        /\ last_op' = [op |-> "revoke", token |-> t, ttl |-> 0]
        /\ UNCHANGED <<now, issued, sent, lastLog, net, fm>>

\* CommandManager.revoke_token (the REPL's "revoke <token>"): looks the token
\* up in state.tokens, deletes it there if present, and logs; the blacklist
\* that validate_token reads is not touched.
CmdRevokeToken ==
    \E t \in TokenUniverse :
        /\ revoked' = revoked \cup {t}
        /\ last_op' = [op |-> "cmd_revoke", token |-> t, ttl |-> 0]
        /\ UNCHANGED <<now, ctl, issued, sent, lastLog, net, fm>>

TokNext == Tick \/ GenerateToken \/ RevokeToken \/ CmdRevokeToken

SpecTok == TokInit /\ [][TokNext]_vars

-----------------------------------------------------------------------------
(* Claims about the token module, checked under SpecTok.                   *)

\* C2 (as stated): immediately after t = issue(u, s, 600), validate(t, s) is
\* true and validate(t, s') is false for every other scope s'.
C2_Original ==
    (last_op.op = "generate" /\ last_op.ttl = TOKEN_TTL) =>
        /\ validate_token(last_op.token, last_op.token[3], ctl["B"].token_blacklist)
        /\ \A s \in Scopes \ {last_op.token[3]} :
              ~validate_token(last_op.token, s, ctl["B"].token_blacklist)

\* C2 (amended): immediately after t = issue(u, s, 600), validate(t, s) is true
\* unless the very same token string is already in the revoked set, and
\* validate(t, s') is false for every other scope s'.
C2_ScopeLaw ==
    (last_op.op = "generate" /\ last_op.ttl = TOKEN_TTL) =>
        /\ validate_token(last_op.token, last_op.token[3], ctl["B"].token_blacklist)
              <=> (last_op.token \notin ctl["B"].token_blacklist)
        /\ \A s \in Scopes \ {last_op.token[3]} :
              ~validate_token(last_op.token, s, ctl["B"].token_blacklist)

\* a token was just issued with ttl 600 and is accepted for its own scope
C2_Witness ==
    /\ last_op.op = "generate" /\ last_op.ttl = TOKEN_TTL
    /\ validate_token(last_op.token, last_op.token[3], ctl["B"].token_blacklist)

\* C3: once a revocation of t has been performed, through tokens.revoke_token
\* or through the user-facing revoke command, validate(t, s) is false for
\* every scope s from then on.
C3_RevocationPermanent ==
    \A t \in revoked : \A s \in Scopes :
        ~validate_token(t, s, ctl["B"].token_blacklist)

\* C4: a token issued at t0 with ttl T is accepted (matching scope, not
\* revoked) exactly while now <= t0 + T.
C4_ExpiryFollowsTTL ==
    \A r \in issued :
        (r.token \notin ctl["B"].token_blacklist) =>
            (validate_token(r.token, r.token[3], ctl["B"].token_blacklist)
                <=> (now <= r.t0 + r.ttl))

-----------------------------------------------------------------------------
(* src/manager/lsnp_controller.py: the receive path.                       *)
(*                                                                         *)
(* A frame is the dict parse_kv_message returns, written as a record whose *)
(* DOMAIN is the set of keys present.  The datagram address is its source  *)
(* IP (every peer listens on LSNP_PORT).  A handler is an operator from    *)
(* the controller state, the frame and the address to the new state, the   *)
(* datagrams sent and the log line; an exception escaping the handler      *)
(* keeps the effects made before it and is logged by _listen as ERROR.     *)
(* The log line is kept as its kind: SECURITY for the sender-IP warning,   *)
(* IGNORED for a frame that is not for this user or this transfer,         *)
(* REJECTED for an invalid token, NONE when nothing is logged.             *)

Res(c, out, log) == [c |-> c, out |-> out, log |-> log]

\* kv.get(k, d)
Get(kv, k, d) == IF k \in DOMAIN kv THEN kv[k] ELSE d

EmptyStr == <<"">>
NoneStr == <<"None">>

\* make_ack_message
make_ack_message(message_id) ==
    [TYPE |-> "ACK", MESSAGE_ID |-> message_id, STATUS |-> "RECEIVED"]

_send_ack_none(message_id, addr) == <<>>

\* _send_ack: the ACK goes back to the datagram's source address
_send_ack(message_id, addr) == <<[to |-> addr, kv |-> make_ack_message(message_id)]>>

_failed_security_check_open(from_id, sender_ip) == FALSE

\* _failed_security_check: True means drop
_failed_security_check(from_id, sender_ip) ==
    IF from_id # EmptyStr /\ Len(from_id) >= 2
    THEN from_id[Len(from_id)] # sender_ip
    ELSE TRUE

\* the display name shown for a sender (peer_map entry, else the name part)
DisplayNameOf(c, from_id) ==
    IF from_id = c.full_user_id THEN c.display_name
    ELSE IF from_id \in DOMAIN c.peer_map THEN c.peer_map[from_id].display_name
    ELSE from_id[1]

\* list.remove(x): drops the first occurrence
RECURSIVE ListRemove(_, _)
ListRemove(l, x) ==
    IF l = <<>> THEN <<>>
    ELSE IF Head(l) = x THEN Tail(l)
    ELSE <<Head(l)>> \o ListRemove(Tail(l), x)

InList(l, x) == \E i \in 1..Len(l) : l[i] = x

handle_PROFILE(c, kv, addr) ==
    LET from_id == Get(kv, "USER_ID", EmptyStr)
        display_name == Get(kv, "DISPLAY_NAME", "")
        avatar_data == Get(kv, "AVATAR_DATA", "None")
    IN  IF from_id \notin DOMAIN c.peer_map
        THEN Res([c EXCEPT !.peer_map = Put(@, from_id,
                     [user_id |-> from_id, display_name |-> display_name,
                      ip |-> addr, avatar_data |-> avatar_data])], <<>>, "PROFILE")
        ELSE Res([c EXCEPT !.peer_map[from_id].display_name = display_name,
                           !.peer_map[from_id].avatar_data = avatar_data], <<>>, "PROFILE")

handle_DM(c, kv, addr) ==
    LET from_id == Get(kv, "FROM", EmptyStr)
        to_id == Get(kv, "TO", EmptyStr)
        token == Get(kv, "TOKEN", EmptyStr)
        content == Get(kv, "CONTENT", "")
        message_id == Get(kv, "MESSAGE_ID", "")
    IN  IF _failed_security_check(from_id, addr) THEN Res(c, <<>>, "SECURITY")
        ELSE IF to_id # c.full_user_id THEN Res(c, <<>>, "IGNORED")
        ELSE IF ~validate_token(token, "chat", c.token_blacklist)
             THEN Res(c, <<>>, "REJECTED")
        ELSE Res([c EXCEPT !.inbox = Append(@, <<"DM", DisplayNameOf(c, from_id), content>>)],
                 _send_ack(message_id, addr), "DM")

handle_FOLLOW(c, kv, addr) ==
    LET from_id == Get(kv, "FROM", EmptyStr)
        to_id == Get(kv, "TO", EmptyStr)
        message_id == Get(kv, "MESSAGE_ID", "")
    IN  IF _failed_security_check(from_id, addr) THEN Res(c, <<>>, "SECURITY")
        ELSE IF to_id = c.full_user_id
        THEN Res([c EXCEPT !.inbox = Append(@, <<"FOLLOWED", from_id[1]>>),
                           !.followers = Append(@, from_id)],
                 _send_ack(message_id, addr), "NOTIFY FOLLOW")
        ELSE Res(c, <<>>, "NONE")

\* the ACK is sent before followers.remove raises for an unknown follower
handle_UNFOLLOW(c, kv, addr) ==
    LET from_id == Get(kv, "FROM", EmptyStr)
        message_id == Get(kv, "MESSAGE_ID", "")
        c1 == [c EXCEPT !.inbox = Append(@, <<"UNFOLLOWED", from_id[1]>>)]
    IN  IF _failed_security_check(from_id, addr) THEN Res(c, <<>>, "SECURITY")
        ELSE IF InList(c.followers, from_id)
        THEN Res([c1 EXCEPT !.followers = ListRemove(@, from_id)],
                 _send_ack(message_id, addr), "NOTIFY UNFOLLOW")
        ELSE Res(c1, _send_ack(message_id, addr), "ERROR")

handle_POST(c, kv, addr) ==
    LET from_id == Get(kv, "USER_ID", EmptyStr)
        token == Get(kv, "TOKEN", EmptyStr)
        message_id == Get(kv, "MESSAGE_ID", "")
        content == Get(kv, "CONTENT", "")
        display_name == IF from_id \in DOMAIN c.peer_map
                           /\ c.peer_map[from_id].display_name # ""
                        THEN c.peer_map[from_id].display_name
                        ELSE from_id[1]
    IN  IF _failed_security_check(from_id, addr) THEN Res(c, <<>>, "SECURITY")
        ELSE IF ~validate_token(token, "post", c.token_blacklist)
             THEN Res(c, <<>>, "REJECTED")
        ELSE Res([c EXCEPT !.inbox = Append(@, <<"POST", display_name, content>>)],
                 _send_ack(message_id, addr), "POST")

handle_ACK(c, kv, addr) ==
    LET message_id == Get(kv, "MESSAGE_ID", "")
    IN  IF message_id \in DOMAIN c.ack_events
        THEN Res([c EXCEPT !.ack_events[message_id] = TRUE], <<>>, "ACK")
        ELSE Res(c, <<>>, "NONE")

handle_PING(c, kv, addr) == Res(c, <<>>, "PING")

\* LIKE: the fields are read and nothing is done with them
handle_LIKE(c, kv, addr) ==
    LET from_id == Get(kv, "FROM", EmptyStr)
    IN  IF _failed_security_check(from_id, addr) THEN Res(c, <<>>, "SECURITY")
        ELSE Res(c, <<>>, "NONE")

-----------------------------------------------------------------------------
(* File transfer inside the controller: FileTransfer and the file handlers. *)
(* Bytes are sequences; a DATA field is [ok, bytes]: ok is whether the     *)
(* base64 text decodes, bytes is what it decodes to.                       *)

\* math.ceil(a / b) for b > 0
Ceil(a, b) == -((-a) \div b)

\* FileTransfer.__init__
FileTransfer(file_id, filename, filesize, total_chunks, sender_id) == [
    file_id |-> file_id, filename |-> filename, filesize |-> filesize,
    total_chunks |-> total_chunks, sender_id |-> sender_id,
    chunks |-> EmptyMap, received_chunks |-> 0,
    accepted |-> FALSE, completed |-> FALSE ]

add_chunk_recount(t, chunk_index, data) ==
    IF ~t.accepted THEN t
    ELSE LET t1 == [t EXCEPT !.chunks = Put(@, chunk_index, data),
                             !.received_chunks = @ + 1]
         IN  IF t1.received_chunks = t1.total_chunks
             THEN [t1 EXCEPT !.completed = TRUE] ELSE t1

\* FileTransfer.add_chunk: the transfer after the call
add_chunk(t, chunk_index, data) ==
    IF ~t.accepted THEN t
    ELSE LET t1 == IF chunk_index \notin DOMAIN t.chunks
                   THEN [t EXCEPT !.chunks = Put(@, chunk_index, data),
                                  !.received_chunks = @ + 1]
                   ELSE t
         IN  IF t1.received_chunks = t1.total_chunks
             THEN [t1 EXCEPT !.completed = TRUE] ELSE t1

RECURSIVE Assemble(_, _, _)
Assemble(chunks, i, n) ==
    IF i >= n THEN <<>> ELSE chunks[i] \o Assemble(chunks, i + 1, n)

\* FileTransfer.get_assembled_data: [some, data], some = FALSE for None
get_assembled_data(t) ==
    IF ~t.completed THEN [some |-> FALSE, data |-> <<>>]
    ELSE IF \E i \in 0..(t.total_chunks - 1) : i \notin DOMAIN t.chunks
         THEN [some |-> FALSE, data |-> <<>>]
    ELSE [some |-> TRUE, data |-> Assemble(t.chunks, 0, t.total_chunks)]

\* _send_file_received: nothing is sent to a peer that is not in peer_map
_send_file_received(c, file_id, recipient_id, status) ==
    IF recipient_id \notin DOMAIN c.peer_map THEN <<>>
    ELSE <<[to |-> c.peer_map[recipient_id].ip,
            kv |-> [TYPE |-> "FILE_RECEIVED", FROM |-> c.full_user_id,
                    TO |-> recipient_id, FILEID |-> file_id, STATUS |-> status]]>>

_complete_file_transfer_keep(c, t, log) ==
    LET assembled == get_assembled_data(t)
    IN  IF ~assembled.some \/ assembled.data = <<>> THEN Res(c, <<>>, log)
        ELSE Res([c EXCEPT !.downloads = Put(@, t.filename, assembled.data)],
                 _send_file_received(c, t.file_id, t.sender_id, "COMPLETE"),
                 "FILE COMPLETE")

\* _complete_file_transfer: c already holds the transfer t in active_transfers
_complete_file_transfer(c, t, log) ==
    LET assembled == get_assembled_data(t)
    IN  IF ~assembled.some \/ assembled.data = <<>> THEN Res(c, <<>>, log)
        ELSE Res([c EXCEPT !.downloads = Put(@, t.filename, assembled.data),
                           !.active_transfers = Del(@, t.file_id)],
                 _send_file_received(c, t.file_id, t.sender_id, "COMPLETE"),
                 "FILE COMPLETE")

_handle_file_offer(c, kv, addr) ==
    LET from_id == Get(kv, "FROM", EmptyStr)
        to_id == Get(kv, "TO", EmptyStr)
        token == Get(kv, "TOKEN", EmptyStr)
        filesize == Get(kv, "FILESIZE", 0)
        file_id == Get(kv, "FILEID", "")
        total_chunks == Ceil(filesize, MAX_CHUNK_SIZE)
    IN  IF to_id # c.full_user_id THEN Res(c, <<>>, "IGNORED")
        ELSE IF ~validate_token(token, "file", c.token_blacklist)
             THEN Res(c, <<>>, "REJECTED")
        ELSE Res([c EXCEPT !.pending_offers = Put(@, file_id,
                     FileTransfer(file_id, Get(kv, "FILENAME", ""), filesize,
                                  total_chunks, from_id))],
                 <<>>, "FILE_OFFER")

_handle_file_chunk(c, kv, addr) ==
    LET to_id == Get(kv, "TO", EmptyStr)
        token == Get(kv, "TOKEN", EmptyStr)
        file_id == Get(kv, "FILEID", "")
        chunk_index == Get(kv, "CHUNK_INDEX", 0)
        data_b64 == Get(kv, "DATA", [ok |-> TRUE, bytes |-> <<>>])
    IN  IF to_id # c.full_user_id THEN Res(c, <<>>, "NONE")
        ELSE IF ~validate_token(token, "file", c.token_blacklist)
             THEN Res(c, <<>>, "REJECTED")
        ELSE IF file_id \notin DOMAIN c.active_transfers
             THEN Res(c, <<>>, "IGNORED")
        ELSE IF ~data_b64.ok THEN Res(c, <<>>, "FILE_CHUNK ERROR")
        ELSE LET t == add_chunk(c.active_transfers[file_id], chunk_index, data_b64.bytes)
                 c1 == [c EXCEPT !.active_transfers[file_id] = t]
             IN  IF t.completed THEN _complete_file_transfer(c1, t, "FILE_CHUNK")
                 ELSE Res(c1, <<>>, "FILE_CHUNK")

_handle_file_received(c, kv, addr) == Res(c, <<>>, "FILE_RECEIVED")

handle_FILE_OFFER(c, kv, addr) ==
    IF _failed_security_check(Get(kv, "FROM", EmptyStr), addr)
    THEN Res(c, <<>>, "SECURITY") ELSE _handle_file_offer(c, kv, addr)

handle_FILE_CHUNK(c, kv, addr) ==
    IF _failed_security_check(Get(kv, "FROM", EmptyStr), addr)
    THEN Res(c, <<>>, "SECURITY") ELSE _handle_file_chunk(c, kv, addr)

handle_FILE_RECEIVED(c, kv, addr) ==
    IF _failed_security_check(Get(kv, "FROM", EmptyStr), addr)
    THEN Res(c, <<>>, "SECURITY") ELSE _handle_file_received(c, kv, addr)

\* FILE_ACCEPT / FILE_REJECT: response is "ACCEPTED" / "REJECTED".  With an
\* invalid token the handler deletes pending_offers[file_id] (KeyError when
\* there is none) and returns.
handle_FILE_RESPONSE(c, kv, addr, response) ==
    LET from_id == Get(kv, "FROM", EmptyStr)
        to_id == Get(kv, "TO", EmptyStr)
        file_id == Get(kv, "FILEID", "")
        token == Get(kv, "TOKEN", EmptyStr)
    IN  IF _failed_security_check(from_id, addr) THEN Res(c, <<>>, "SECURITY")
        ELSE IF to_id # c.full_user_id THEN Res(c, <<>>, "NONE")
        ELSE IF ~validate_token(token, "file", c.token_blacklist)
             THEN IF file_id \in DOMAIN c.pending_offers
                  THEN Res([c EXCEPT !.pending_offers = Del(@, file_id)], <<>>,
                           "FILE_RESPONSE REJECTED")
                  ELSE Res(c, <<>>, "ERROR")
        ELSE IF file_id \in DOMAIN c.file_response_events
             THEN Res([c EXCEPT !.file_responses = Put(@, file_id, response),
                                !.file_response_events[file_id] = TRUE],
                      <<>>, "FILE_RESPONSE")
        ELSE Res(c, <<>>, "NONE")

-----------------------------------------------------------------------------
(* Tic-tac-toe and group handlers.  A board is a sequence of nine cells,   *)
(* python index i being cell i + 1.                                        *)

EmptyBoard == [i \in 1..9 |-> " "]
WinLines == << <<0,1,2>>, <<3,4,5>>, <<6,7,8>>, <<0,3,6>>, <<1,4,7>>, <<2,5,8>>,
               <<0,4,8>>, <<2,4,6>> >>

LineWon(board, l) ==
    /\ board[l[1] + 1] # " "
    /\ board[l[1] + 1] = board[l[2] + 1]
    /\ board[l[2] + 1] = board[l[3] + 1]

_check_ttt_winner_rows(board) ==
    IF \E k \in 1..3 : LineWon(board, WinLines[k])
    THEN board[WinLines[CHOOSE j \in 1..3 : LineWon(board, WinLines[j])][1] + 1]
    ELSE IF \A i \in 1..9 : board[i] # " " THEN "DRAW"
    ELSE "None"

\* GameManager._check_ttt_winner: the winner's symbol, "DRAW", or "None"
_check_ttt_winner(board) ==
    IF \E k \in 1..Len(WinLines) : LineWon(board, WinLines[k])
    THEN LET k == CHOOSE j \in 1..Len(WinLines) :
                      /\ LineWon(board, WinLines[j])
                      /\ \A i \in 1..(j - 1) : ~LineWon(board, WinLines[i])
         IN  board[WinLines[k][1] + 1]
    ELSE IF \A i \in 1..9 : board[i] # " " THEN "DRAW"
    ELSE "None"

\* the second value _check_ttt_winner returns: the first line that is won,
\* <<>> (None) when there is none
_check_ttt_line(board) ==
    IF \E k \in 1..Len(WinLines) : LineWon(board, WinLines[k])
    THEN WinLines[CHOOSE j \in 1..Len(WinLines) :
                      /\ LineWon(board, WinLines[j])
                      /\ \A i \in 1..(j - 1) : ~LineWon(board, WinLines[i])]
    ELSE <<>>

\* WINNING_LINE is ",".join(map(str, line)), kept here as the tuple, "" for None
make_tictactoe_result_message(from_id, to_id, gameid, result, symbol, win_line_str, token) ==
    [TYPE |-> "TICTACTOE_RESULT", FROM |-> from_id, TO |-> to_id, GAMEID |-> gameid,
     MESSAGE_ID |-> "r1", RESULT |-> result, SYMBOL |-> symbol,
     WINNING_LINE |-> win_line_str, TOKEN |-> token]

\* send_tictactoe_result: the opponent must be in peer_map (KeyError otherwise)
send_tictactoe_result(c, gameid, winner, line) ==
    IF gameid \notin DOMAIN c.tictactoe_games THEN Res(c, <<>>, "NONE")
    ELSE LET game == c.tictactoe_games[gameid]
             peer_id == game.opponent
             result == IF winner = "DRAW" THEN "DRAW"
                       ELSE IF winner = game.my_symbol THEN "WIN" ELSE "LOSS"
         IN  IF peer_id \notin DOMAIN c.peer_map THEN Res(c, <<>>, "ERROR")
             ELSE Res([c EXCEPT !.tictactoe_games[gameid].active = FALSE],
                      <<[to |-> c.peer_map[peer_id].ip,
                         kv |-> make_tictactoe_result_message(c.full_user_id, peer_id,
                                    gameid, result, game.my_symbol,
                                    IF line = <<>> THEN "" ELSE line,
                                    generate_token(c.full_user_id, "game", TOKEN_TTL))]>>,
                      "GAME ENDED")

handle_TICTACTOE_INVITE(c, kv, addr) ==
    LET from_id == Get(kv, "FROM", NoneStr)
        gameid == Get(kv, "GAMEID", "None")
        symbol == Get(kv, "SYMBOL", "None")
    IN  IF _failed_security_check(from_id, addr) THEN Res(c, <<>>, "SECURITY")
        ELSE Res([c EXCEPT !.tictactoe_games = Put(@, gameid,
                     [board |-> EmptyBoard,
                      my_symbol |-> IF symbol = "X" THEN "O" ELSE "X",
                      opponent |-> from_id, turn |-> 0, active |-> TRUE])],
                 <<>>, "GAME INVITE")

handle_TICTACTOE_MOVE(c, kv, addr) ==
    LET from_id == Get(kv, "FROM", NoneStr)
        gameid == Get(kv, "GAMEID", "None")
        pos == Get(kv, "POSITION", 0)
        sym == Get(kv, "SYMBOL", "None")
        idx == IF pos >= 0 THEN pos + 1 ELSE 9 + pos + 1
    IN  IF _failed_security_check(from_id, addr) THEN Res(c, <<>>, "SECURITY")
        ELSE IF "POSITION" \notin DOMAIN kv THEN Res(c, <<>>, "ERROR")
        ELSE IF gameid \notin DOMAIN c.tictactoe_games THEN Res(c, <<>>, "NONE")
        ELSE IF idx \notin 1..9 THEN Res(c, <<>>, "ERROR")
        ELSE IF "TURN" \notin DOMAIN kv
             THEN Res([c EXCEPT !.tictactoe_games[gameid].board[idx] = sym], <<>>, "ERROR")
        ELSE LET c1 == [c EXCEPT !.tictactoe_games[gameid].board[idx] = sym,
                                 !.tictactoe_games[gameid].turn = kv.TURN]
                 winner == _check_ttt_winner(c1.tictactoe_games[gameid].board)
             IN  IF winner # "None"
                 THEN send_tictactoe_result(c1, gameid, winner,
                          _check_ttt_line(c1.tictactoe_games[gameid].board))
                 ELSE Res(c1, <<>>, "GAME MOVE")

\* TICTACTOE_RESULT: KeyError for a game that is not there
handle_TICTACTOE_RESULT(c, kv, addr) ==
    LET from_id == Get(kv, "FROM", NoneStr)
        gameid == Get(kv, "GAMEID", "None")
    IN  IF _failed_security_check(from_id, addr) THEN Res(c, <<>>, "SECURITY")
        ELSE IF gameid \notin DOMAIN c.tictactoe_games THEN Res(c, <<>>, "ERROR")
        ELSE Res([c EXCEPT !.tictactoe_games = Del(@, gameid)], <<>>, "GAME RESULT")

\* Group.__init__
Group(group_id, group_name, owner_id, members) ==
    [group_id |-> group_id, group_name |-> group_name,
     owner_id |-> owner_id, members |-> members]

\* the index of the first group with this id, 0 when there is none
FindGroup(groups, group_id) ==
    IF \E i \in 1..Len(groups) : groups[i].group_id = group_id
    THEN CHOOSE i \in 1..Len(groups) :
             /\ groups[i].group_id = group_id
             /\ \A j \in 1..(i - 1) : groups[j].group_id # group_id
    ELSE 0

\* list.pop(i), i counted from 1
ListPop(l, i) == [j \in 1..(Len(l) - 1) |-> IF j < i THEN l[j] ELSE l[j + 1]]

\* members.remove(m) for each m in turn, stopping at the first that is absent
RECURSIVE RemoveEach(_, _)
RemoveEach(members, parts) ==
    IF parts = <<>> THEN [members |-> members, ok |-> TRUE]
    ELSE IF ~InList(members, Head(parts)) THEN [members |-> members, ok |-> FALSE]
    ELSE RemoveEach(ListRemove(members, Head(parts)), Tail(parts))

handle_GROUP_CREATE(c, kv, addr) ==
    LET from_id == Get(kv, "FROM", NoneStr)
        parts == Get(kv, "MEMBERS", <<EmptyStr>>)
        token == Get(kv, "TOKEN", EmptyStr)
    IN  IF _failed_security_check(from_id, addr) THEN Res(c, <<>>, "SECURITY")
        ELSE IF ~InList(parts, c.full_user_id) THEN Res(c, <<>>, "NONE")
        ELSE IF ~validate_token(token, "group", c.token_blacklist)
             THEN Res(c, <<>>, "REJECTED")
        ELSE Res([c EXCEPT !.groups = Append(@, Group(Get(kv, "GROUP_ID", ""),
                                Get(kv, "GROUP_NAME", ""), from_id, parts))],
                 <<>>, "GROUP_CREATE")

\* GROUP_ADD: when the local user is not among the added ones and no group
\* has this id, group_index stays -1 and the last group of the list is the
\* one whose member list is replaced (IndexError on an empty list).
handle_GROUP_ADD(c, kv, addr) ==
    LET from_id == Get(kv, "FROM", NoneStr)
        group_id == Get(kv, "GROUP_ID", "")
        add_parts == Get(kv, "ADD", <<EmptyStr>>)
        member_parts == Get(kv, "MEMBERS", <<EmptyStr>>)
        token == Get(kv, "TOKEN", EmptyStr)
        found == FindGroup(c.groups, group_id)
        group_index == IF found = 0 THEN Len(c.groups) ELSE found
    IN  IF _failed_security_check(from_id, addr) THEN Res(c, <<>>, "SECURITY")
        ELSE IF ~InList(member_parts, c.full_user_id) THEN Res(c, <<>>, "NONE")
        ELSE IF ~validate_token(token, "group", c.token_blacklist)
             THEN Res(c, <<>>, "REJECTED")
        ELSE IF InList(add_parts, c.full_user_id)
             THEN Res([c EXCEPT !.groups = Append(@, Group(group_id,
                                     Get(kv, "GROUP_NAME", ""), from_id, member_parts))],
                      <<>>, "GROUP_ADD")
        ELSE IF group_index = 0 THEN Res(c, <<>>, "ERROR")
        ELSE Res([c EXCEPT !.groups[group_index].members = member_parts],
                 <<>>, "GROUP_ADD")

\* GROUP_REMOVE: after groups.pop the verbose report indexes the list again
handle_GROUP_REMOVE(c, kv, addr) ==
    LET from_id == Get(kv, "FROM", NoneStr)
        group_id == Get(kv, "GROUP_ID", "")
        remove_parts == Get(kv, "REMOVE", <<EmptyStr>>)
        token == Get(kv, "TOKEN", EmptyStr)
        group_index == FindGroup(c.groups, group_id)
    IN  IF _failed_security_check(from_id, addr) THEN Res(c, <<>>, "SECURITY")
        ELSE IF group_index = 0 THEN Res(c, <<>>, "NONE")
        ELSE IF ~InList(c.groups[group_index].members, c.full_user_id)
             THEN Res(c, <<>>, "NONE")
        ELSE IF ~validate_token(token, "group", c.token_blacklist)
             THEN Res(c, <<>>, "REJECTED")
        ELSE IF InList(remove_parts, c.full_user_id)
             THEN LET c1 == [c EXCEPT !.groups = ListPop(@, group_index)]
                  IN  IF c.verbose /\ group_index > Len(c1.groups)
                      THEN Res(c1, <<>>, "ERROR")
                      ELSE Res(c1, <<>>, "GROUP_REMOVE")
        ELSE LET r == RemoveEach(c.groups[group_index].members, remove_parts)
                 c1 == [c EXCEPT !.groups[group_index].members = r.members]
             IN  Res(c1, <<>>, IF r.ok THEN "GROUP_REMOVE" ELSE "ERROR")

\* GROUP_MESSAGE: logged and acknowledged; nothing is appended to the inbox
handle_GROUP_MESSAGE(c, kv, addr) ==
    LET from_id == Get(kv, "FROM", NoneStr)
        group_id == Get(kv, "GROUP_ID", "")
        message_id == Get(kv, "MESSAGE_ID", "")
        token == Get(kv, "TOKEN", EmptyStr)
    IN  IF _failed_security_check(from_id, addr) THEN Res(c, <<>>, "SECURITY")
        ELSE IF FindGroup(c.groups, group_id) = 0 THEN Res(c, <<>>, "NONE")
        ELSE IF ~validate_token(token, "group", c.token_blacklist)
             THEN Res(c, <<>>, "REJECTED")
        ELSE Res(c, _send_ack(message_id, addr), "GROUP MESSAGE")

\* _handle_kv_message: dispatch on TYPE; an unknown type falls through
_handle_kv_message(c, kv, addr) ==
    LET msg_type == Get(kv, "TYPE", "None")
    IN  CASE msg_type = "PROFILE" -> handle_PROFILE(c, kv, addr)
          [] msg_type = "DM" -> handle_DM(c, kv, addr)
          [] msg_type = "FOLLOW" -> handle_FOLLOW(c, kv, addr)
          [] msg_type = "UNFOLLOW" -> handle_UNFOLLOW(c, kv, addr)
          [] msg_type = "POST" -> handle_POST(c, kv, addr)
          [] msg_type = "FILE_OFFER" -> handle_FILE_OFFER(c, kv, addr)
          [] msg_type = "FILE_CHUNK" -> handle_FILE_CHUNK(c, kv, addr)
          [] msg_type = "FILE_RECEIVED" -> handle_FILE_RECEIVED(c, kv, addr)
          [] msg_type = "ACK" -> handle_ACK(c, kv, addr)
          [] msg_type = "PING" -> handle_PING(c, kv, addr)
          [] msg_type = "FILE_ACCEPT" -> handle_FILE_RESPONSE(c, kv, addr, "ACCEPTED")
          [] msg_type = "FILE_REJECT" -> handle_FILE_RESPONSE(c, kv, addr, "REJECTED")
          [] msg_type = "LIKE" -> handle_LIKE(c, kv, addr)
          [] msg_type = "TICTACTOE_INVITE" -> handle_TICTACTOE_INVITE(c, kv, addr)
          [] msg_type = "TICTACTOE_MOVE" -> handle_TICTACTOE_MOVE(c, kv, addr)
          [] msg_type = "TICTACTOE_RESULT" -> handle_TICTACTOE_RESULT(c, kv, addr)
          [] msg_type = "GROUP_CREATE" -> handle_GROUP_CREATE(c, kv, addr)
          [] msg_type = "GROUP_ADD" -> handle_GROUP_ADD(c, kv, addr)
          [] msg_type = "GROUP_REMOVE" -> handle_GROUP_REMOVE(c, kv, addr)
          [] msg_type = "GROUP_MESSAGE" -> handle_GROUP_MESSAGE(c, kv, addr)
          [] OTHER -> Res(c, <<>>, "NONE")

\* the handler left by an exception (KeyError, ValueError, IndexError)
Raised(r) == r.log = "ERROR"

\* the loop without its try/except: an exception ends the thread
_listen_uncaught(c, kv, addr) ==
    IF ~c.listening THEN Res(c, <<>>, "NONE")
    ELSE LET r == _handle_kv_message(c, kv, addr)
         IN  IF Raised(r) THEN Res([r.c EXCEPT !.listening = FALSE], r.out, r.log) ELSE r

\* _listen, one datagram taken by the receive thread (listening is FALSE once
\* the thread has ended): an exception of the handler is caught by the
\* except clause, with what the handler did before it kept, and the loop
\* goes on to the next recvfrom
_listen(c, kv, addr) ==
    IF ~c.listening THEN Res(c, <<>>, "NONE")
    ELSE LET r == _handle_kv_message(c, kv, addr)
         IN  IF Raised(r) THEN Res(r.c, r.out, "ERROR") ELSE r

\* accept_file (REPL)
accept_file(c, file_id) ==
    IF file_id \notin DOMAIN c.pending_offers THEN Res(c, <<>>, "ERROR NO OFFER")
    ELSE LET transfer == [c.pending_offers[file_id] EXCEPT !.accepted = TRUE]
             recipient_id == transfer.sender_id
         IN  Res([c EXCEPT !.active_transfers = Put(@, file_id, transfer),
                           !.pending_offers = Del(@, file_id)],
                 IF recipient_id \notin DOMAIN c.peer_map THEN <<>>
                 ELSE <<[to |-> c.peer_map[recipient_id].ip,
                         kv |-> [TYPE |-> "FILE_ACCEPT", FROM |-> c.full_user_id,
                                 TO |-> recipient_id, FILEID |-> file_id,
                                 TOKEN |-> generate_token(c.full_user_id, "file", TOKEN_TTL)]]>>,
                 "FILE ACCEPTED")

\* reject_file (REPL)
reject_file(c, file_id) ==
    IF file_id \notin DOMAIN c.pending_offers THEN Res(c, <<>>, "ERROR NO OFFER")
    ELSE LET recipient_id == c.pending_offers[file_id].sender_id
         IN  Res([c EXCEPT !.pending_offers = Del(@, file_id)],
                 IF recipient_id \notin DOMAIN c.peer_map THEN <<>>
                 ELSE <<[to |-> c.peer_map[recipient_id].ip,
                         kv |-> [TYPE |-> "FILE_REJECT", FROM |-> c.full_user_id,
                                 TO |-> recipient_id, FILEID |-> file_id,
                                 TOKEN |-> generate_token(c.full_user_id, "file", TOKEN_TTL)]]>>,
                 "FILE REJECTED")

-----------------------------------------------------------------------------
(* src/manager/lsnp_controller.py: the operations that wait for an ACK.    *)
(* Each is cut at its blocking ack_event.wait(RETRY_INTERVAL): the part up *)
(* to the first wait, the continuation when the wait returns True, and the *)
(* continuation when it times out.                                         *)

make_dm_message(from_user_id, to_user_id, content, message_id, token) ==
    [TYPE |-> "DM", FROM |-> from_user_id, TO |-> to_user_id, CONTENT |-> content,
     MESSAGE_ID |-> message_id, TOKEN |-> token]

make_follow_message(from_id, to_id, message_id, token) ==
    [TYPE |-> "FOLLOW", MESSAGE_ID |-> message_id, FROM |-> from_id, TO |-> to_id,
     TOKEN |-> token]

make_unfollow_message(from_id, to_id, message_id, token) ==
    [TYPE |-> "UNFOLLOW", MESSAGE_ID |-> message_id, FROM |-> from_id, TO |-> to_id,
     TOKEN |-> token]

\* the LIKE frame has no MESSAGE_ID
make_like_message(from_id, to_id, post_timestamp_id, action, timestamp, token) ==
    [TYPE |-> "LIKE", FROM |-> from_id, TO |-> to_id,
     POST_TIMESTAMP |-> post_timestamp_id, TIMESTAMP |-> timestamp, TOKEN |-> token]
    @@ ("ACTION" :> action)

make_group_message(from_user_id, group_id, message_id, content, token) ==
    [TYPE |-> "GROUP_MESSAGE", FROM |-> from_user_id, GROUP_ID |-> group_id,
     MESSAGE_ID |-> message_id, CONTENT |-> content, TOKEN |-> token]

make_group_create_message(from_user_id, group_id, group_name, members, token) ==
    [TYPE |-> "GROUP_CREATE", FROM |-> from_user_id, GROUP_ID |-> group_id,
     GROUP_NAME |-> group_name, MEMBERS |-> members, TOKEN |-> token]

\* the handle resolution at the head of every operation: a full id is kept,
\* a bare name is replaced by a peer_map key that starts with "name@"
Resolve(c, recipient_id) ==
    IF Len(recipient_id) >= 2 THEN recipient_id
    ELSE IF \E u \in DOMAIN c.peer_map : u[1] = recipient_id[1]
         THEN CHOOSE u \in DOMAIN c.peer_map : u[1] = recipient_id[1]
    ELSE EmptyStr

\* the operation returned before its loop, with one report to the user
OpRefused(c, kind, log) ==
    Res([c EXCEPT !.op = [IdleOp EXCEPT !.kind = kind, !.pc = "done", !.t0 = now,
                                        !.t1 = now, !.failure = 1]], <<>>, log)

\* the frame the operation (re)transmits; its token was minted at op.t0
OpMsg(c, op) ==
    CASE op.kind = "send_dm" ->
           make_dm_message(c.full_user_id, op.to, "hi", op.message_id,
                           <<c.full_user_id, op.t0, "chat">>)
      [] op.kind = "follow" ->
           make_follow_message(c.full_user_id, op.to, op.message_id,
                               <<c.full_user_id, op.t0, "follow">>)
      [] op.kind = "unfollow" ->
           make_unfollow_message(c.full_user_id, op.to, op.message_id,
                                 <<c.full_user_id, op.t0, "unfollow">>)
      [] op.kind = "toggle_like" ->
           make_like_message(c.full_user_id, op.to, op.gid,
                             IF op.gid \in c.post_likes THEN "UNLIKE" ELSE "LIKE",
                             op.message_id, <<c.full_user_id, op.t0, "like">>)
      [] OTHER ->
           make_group_message(c.full_user_id, op.gid, op.message_id, "hi",
                              <<c.full_user_id, op.t0, "group">>)

\* socket.sendto(msg, (peer.ip, peer.port)) to the operation's current recipient
OpSend(c, op) ==
    <<[to |-> c.peer_map[op.rcpts[op.rcpt]].ip, kv |-> OpMsg(c, op)]>>

\* the first transmission made with no waiter registered yet
OpStart_unregistered(c, kind, rcpts, gid, message_id, log) ==
    LET op == [IdleOp EXCEPT !.kind = kind, !.pc = "wait", !.to = rcpts[1],
                             !.message_id = message_id, !.rcpts = rcpts, !.rcpt = 1,
                             !.gid = gid, !.sends = 1, !.t0 = now, !.t1 = now]
    IN  Res([c EXCEPT !.op = op], OpSend(c, op), log)

\* the waiter is registered, the first transmission made, and the thread
\* blocks in ack_event.wait
OpStart(c, kind, rcpts, gid, message_id, log) ==
    LET op == [IdleOp EXCEPT !.kind = kind, !.pc = "wait", !.to = rcpts[1],
                             !.message_id = message_id, !.rcpts = rcpts, !.rcpt = 1,
                             !.gid = gid, !.sends = 1, !.t0 = now, !.t1 = now]
    IN  Res([c EXCEPT !.ack_events = Put(@, message_id, FALSE), !.op = op],
            OpSend(c, op), log)

send_dm(c, recipient_id, message_id) ==
    LET rid == Resolve(c, recipient_id)
    IN  IF rid \notin DOMAIN c.peer_map THEN OpRefused(c, "send_dm", "ERROR UNKNOWN PEER")
        ELSE OpStart(c, "send_dm", <<rid>>, "", message_id, "DM SEND")

\* follow: the target joins `following` before anything is sent
follow(c, user_id, message_id) ==
    LET uid == Resolve(c, user_id)
    IN  IF uid \notin DOMAIN c.peer_map THEN OpRefused(c, "follow", "ERROR UNKNOWN PEER")
        ELSE IF uid = c.full_user_id THEN OpRefused(c, "follow", "FOLLOW REFUSED")
        ELSE IF uid \in c.following THEN OpRefused(c, "follow", "FOLLOW REFUSED")
        ELSE OpStart([c EXCEPT !.following = @ \cup {uid}], "follow", <<uid>>, "",
                     message_id, "FOLLOW")

\* unfollow: the target leaves `following` before anything is sent
unfollow(c, user_id, message_id) ==
    LET uid == Resolve(c, user_id)
    IN  IF uid \notin DOMAIN c.peer_map THEN OpRefused(c, "unfollow", "ERROR UNKNOWN PEER")
        ELSE IF uid = c.full_user_id THEN OpRefused(c, "unfollow", "UNFOLLOW REFUSED")
        ELSE IF uid \notin c.following THEN OpRefused(c, "unfollow", "UNFOLLOW REFUSED")
        ELSE OpStart([c EXCEPT !.following = @ \ {uid}], "unfollow", <<uid>>, "",
                     message_id, "UNFOLLOW")

\* toggle_like: the waiter is keyed by str(int(time.time()))
toggle_like(c, post_timestamp_id, owner_name) ==
    LET owners == {u \in DOMAIN c.peer_map :
                      c.peer_map[u].display_name = owner_name \/ u[1] = owner_name}
    IN  IF owners = {} THEN OpRefused(c, "toggle_like", "LIKE ERROR")
        ELSE OpStart(c, "toggle_like", <<CHOOSE u \in owners : TRUE>>,
                     post_timestamp_id, ToString(now), "LIKE SEND")

\* group_message: one message id and one waiter for the members and then the owner
group_message(c, group_index, message_id) ==
    LET g == c.groups[group_index]
    IN  IF \E i \in 1..Len(g.members) : g.members[i] \notin DOMAIN c.peer_map
        THEN OpRefused(c, "group_message", "ERROR UNKNOWN PEER")
        ELSE IF g.owner_id \notin DOMAIN c.peer_map
        THEN OpRefused(c, "group_message", "ERROR UNKNOWN PEER")
        ELSE OpStart(c, "group_message", g.members \o <<g.owner_id>>, g.group_id,
                     message_id, "GROUP MESSAGE SEND")

\* group_create: the group is stored and the frame sent once to each member
group_create(c, group_name, members, group_id) ==
    IF \E i \in 1..Len(members) : members[i] \notin DOMAIN c.peer_map
    THEN Res(c, <<>>, "ERROR UNKNOWN PEER")
    ELSE Res([c EXCEPT !.groups = Append(@, Group(group_id, group_name,
                                                  c.full_user_id, members))],
             [i \in 1..Len(members) |->
                 [to |-> c.peer_map[members[i]].ip,
                  kv |-> make_group_create_message(c.full_user_id, group_id, group_name,
                             members, generate_token(c.full_user_id, "group", TOKEN_TTL))]],
             "GROUP CREATE")

\* the operation is over at time t, with this many more reports of each kind
OpEnd(c, t, success, failure) ==
    [c EXCEPT !.ack_events = Del(@, c.op.message_id),
              !.op = [c.op EXCEPT !.pc = "done", !.t1 = t,
                                  !.success = @ + success, !.failure = @ + failure]]

\* group_message moves on to its next recipient, or deletes the waiter and
\* returns after the owner; nothing is reported when a recipient's tries ran out
GroupNext(c, t, success, log) ==
    IF c.op.rcpt < Len(c.op.rcpts)
    THEN LET op == [c.op EXCEPT !.rcpt = @ + 1, !.attempt = 0, !.sends = @ + 1,
                                !.t1 = t, !.success = @ + success]
         IN  Res([c EXCEPT !.op = op], OpSend(c, op), log)
    ELSE Res(OpEnd(c, t, success, 0), <<>>, log)

\* ack_event.wait(RETRY_INTERVAL) returned True
OpAcked(c) ==
    LET op == c.op
    IN  CASE op.kind = "send_dm" -> Res(OpEnd(c, now, 1, 0), <<>>, "DM SENT")
          [] op.kind = "follow" ->
               Res([OpEnd(c, now, 1, 0) EXCEPT !.following = @ \cup {op.to}],
                   <<>>, "FOLLOW SENT")
          [] op.kind = "unfollow" ->
               IF op.to \in c.following
               THEN Res([OpEnd(c, now, 1, 0) EXCEPT !.following = @ \ {op.to}],
                        <<>>, "UNFOLLOW SENT")
               ELSE Res(OpEnd(c, now, 1, 1), <<>>, "ERROR")
          [] op.kind = "toggle_like" ->
               Res([OpEnd(c, now, 1, 0) EXCEPT !.post_likes =
                       IF op.gid \in @ THEN @ \ {op.gid} ELSE @ \cup {op.gid}],
                   <<>>, "LIKE CONFIRMED")
          [] OTHER -> GroupNext(c, now, 1, "GROUP MESSAGE SENT")

\* ack_event.wait(RETRY_INTERVAL) returned False at time t
OpTimedOut(c, t) ==
    IF c.op.attempt + 1 < RETRY_COUNT
    THEN LET op == [c.op EXCEPT !.attempt = @ + 1, !.sends = @ + 1, !.t1 = t]
         IN  Res([c EXCEPT !.op = op], OpSend(c, op), "RETRY")
    ELSE IF c.op.kind = "group_message" THEN GroupNext(c, t, 0, "RETRY")
    ELSE Res(OpEnd(c, t, 0, 1), <<>>, "FAILED")

\* send_file.  A file on disk is [filename, filesize, blocks]: blocks are its
\* successive MAX_CHUNK_SIZE-byte ranges, the last one possibly shorter.  Up
\* to the blocking response_event.wait: the response waiter is registered
\* under the file id and the offer is sent.
send_file(c, recipient_id, file, file_id) ==
    LET rid == Resolve(c, recipient_id)
    IN  IF rid \notin DOMAIN c.peer_map THEN OpRefused(c, "send_file", "ERROR UNKNOWN PEER")
        ELSE LET op == [IdleOp EXCEPT !.kind = "send_file", !.pc = "wait_file",
                                      !.to = rid, !.message_id = file_id,
                                      !.rcpts = <<rid>>, !.rcpt = 1, !.file = file,
                                      !.sends = 1, !.t0 = now, !.t1 = now]
             IN  Res([c EXCEPT !.file_response_events = Put(@, file_id, FALSE),
                               !.file_responses = Put(@, file_id, ""),
                               !.op = op],
                     <<[to |-> c.peer_map[rid].ip,
                        kv |-> [TYPE |-> "FILE_OFFER", FROM |-> c.full_user_id, TO |-> rid,
                                FILENAME |-> file.filename, FILESIZE |-> file.filesize,
                                FILEID |-> file_id,
                                TOKEN |-> <<c.full_user_id, now, "file">>]]>>,
                     "FILE OFFER SENT")

\* the FILE_CHUNK frame of chunk chunk_index of the operation's file
ChunkMsg(c, op, chunk_index) ==
    [TYPE |-> "FILE_CHUNK", FROM |-> c.full_user_id, TO |-> op.to,
     FILEID |-> op.message_id, CHUNK_INDEX |-> chunk_index,
     TOTAL_CHUNKS |-> Ceil(op.file.filesize, MAX_CHUNK_SIZE),
     TOKEN |-> <<c.full_user_id, op.t0, "file">>,
     DATA |-> [ok |-> TRUE, bytes |-> <<op.file.blocks[chunk_index + 1]>>]]

\* the two waiter entries are deleted when send_file returns
FileOpEnd(c, success, failure) ==
    [c EXCEPT !.file_response_events = Del(@, c.op.message_id),
              !.file_responses = Del(@, c.op.message_id),
              !.op = [c.op EXCEPT !.pc = "done", !.t1 = now,
                                  !.success = success, !.failure = failure]]

FileResponded_any(c) ==
    LET op == c.op
        total_chunks == Ceil(op.file.filesize, MAX_CHUNK_SIZE)
    IN  Res(FileOpEnd(c, 1, 0),
            [i \in 1..total_chunks |->
                [to |-> c.peer_map[op.to].ip, kv |-> ChunkMsg(c, op, i - 1)]],
            "FILE TRANSFER COMPLETE")

\* response_event.wait returned True: every chunk is sent after ACCEPTED,
\* nothing after REJECTED
FileResponded(c) ==
    LET op == c.op
        response == Get(c.file_responses, op.message_id, "None")
        total_chunks == Ceil(op.file.filesize, MAX_CHUNK_SIZE)
    IN  IF response = "ACCEPTED"
        THEN Res(FileOpEnd(c, 1, 0),
                 [i \in 1..total_chunks |->
                     [to |-> c.peer_map[op.to].ip, kv |-> ChunkMsg(c, op, i - 1)]],
                 "FILE TRANSFER COMPLETE")
        ELSE IF response = "REJECTED"
        THEN Res(FileOpEnd(c, 0, 1), <<>>, "FILE REJECTED BY PEER")
        ELSE Res(FileOpEnd(c, 0, 1), <<>>, "FILE ERROR")


-----------------------------------------------------------------------------
(* The receive specification: process B (bob) listens; frames arrive from  *)
(* alice's address and from a third address, with every combination of     *)
(* FROM, TO and token the handlers distinguish.                            *)

RecvNow == 700
MaxInbox == 2
MaxFollowers == 1
MaxGroups == 1
MaxFamilies == 1
MaxRevoked == 1

Carol == <<"carol", "10.0.0.4">>

\* where a datagram comes from and what its FROM says
Srcs == { [from |-> Alice, ip |-> IpA],
          [from |-> Alice, ip |-> IpM],
          [from |-> <<"alice">>, ip |-> IpA] }
Tos == {Bob, Carol}

TokKinds == {"good", "scope", "expired", "malformed", "revoked"}
MkTok(kind, s) ==
    CASE kind = "good" -> <<Alice, now, s>>
      [] kind = "scope" -> <<Alice, now, IF s = "chat" THEN "post" ELSE "chat">>
      [] kind = "expired" -> <<Alice, now - TOKEN_TTL - 1, s>>
      [] kind = "revoked" -> <<Alice, now - 1, s>>
      [] OTHER -> <<"garbage">>

\* the scope the protocol's frame table gives each token-bearing type
ScopeOf(ty) ==
    CASE ty = "DM" -> "chat"
      [] ty = "FOLLOW" -> "follow"
      [] ty = "UNFOLLOW" -> "unfollow"
      [] ty = "POST" -> "post"
      [] ty = "LIKE" -> "like"
      [] ty \in {"FILE_OFFER", "FILE_ACCEPT", "FILE_REJECT", "FILE_CHUNK"} -> "file"
      [] ty \in {"GROUP_CREATE", "GROUP_ADD", "GROUP_REMOVE", "GROUP_MESSAGE"} -> "group"
      [] ty \in {"TICTACTOE_INVITE", "TICTACTOE_MOVE", "TICTACTOE_RESULT"} -> "game"
      [] OTHER -> "none"

FromTypes == {"DM", "FOLLOW", "UNFOLLOW", "LIKE", "FILE_OFFER", "FILE_ACCEPT",
              "FILE_REJECT", "FILE_CHUNK", "FILE_RECEIVED", "GROUP_CREATE",
              "GROUP_ADD", "GROUP_REMOVE", "GROUP_MESSAGE", "TICTACTOE_INVITE",
              "TICTACTOE_MOVE", "TICTACTOE_RESULT"}
ToTypes == {"DM", "FOLLOW", "UNFOLLOW", "LIKE", "FILE_OFFER", "FILE_ACCEPT",
            "FILE_REJECT", "FILE_CHUNK", "FILE_RECEIVED", "TICTACTOE_INVITE",
            "TICTACTOE_MOVE", "TICTACTOE_RESULT"}
TokenTypes == (FromTypes \cup {"POST"}) \ {"FILE_RECEIVED"}
Types == FromTypes \cup {"POST", "ACK", "PING", "PROFILE"}

ChunkData == { [ok |-> TRUE, bytes |-> <<"x">>], [ok |-> FALSE, bytes |-> <<>>] }

\* the frames of type ty with sender field f, recipient field t and token k
\* (the make_*_message builders and the f-strings of the file operations)
Frames(ty, f, t, k) ==
    CASE ty = "DM" ->
           {[TYPE |-> ty, FROM |-> f, TO |-> t, CONTENT |-> "hi",
             MESSAGE_ID |-> "m1", TOKEN |-> k]}
      [] ty \in {"FOLLOW", "UNFOLLOW"} ->
           {[TYPE |-> ty, MESSAGE_ID |-> "m1", FROM |-> f, TO |-> t, TOKEN |-> k]}
      [] ty = "POST" ->
           {[TYPE |-> ty, USER_ID |-> f, CONTENT |-> "hi", MESSAGE_ID |-> "m1",
             TOKEN |-> k]}
      [] ty = "LIKE" ->
           {[TYPE |-> ty, FROM |-> f, TO |-> t, POST_TIMESTAMP |-> "p1", TOKEN |-> k]}
      [] ty = "FILE_OFFER" ->
           {[TYPE |-> ty, FROM |-> f, TO |-> t, FILENAME |-> "a.txt",
             FILESIZE |-> 2 * MAX_CHUNK_SIZE, FILEID |-> "f1", TOKEN |-> k]}
      [] ty = "FILE_CHUNK" ->
           {[TYPE |-> ty, FROM |-> f, TO |-> t, FILEID |-> "f1", CHUNK_INDEX |-> i,
             TOTAL_CHUNKS |-> 2, TOKEN |-> k, DATA |-> d] : i \in 0..2, d \in ChunkData}
      [] ty \in {"FILE_ACCEPT", "FILE_REJECT"} ->
           {[TYPE |-> ty, FROM |-> f, TO |-> t, FILEID |-> "f1", TOKEN |-> k]}
      [] ty = "FILE_RECEIVED" ->
           {[TYPE |-> ty, FROM |-> f, TO |-> t, FILEID |-> "f1", STATUS |-> "COMPLETE"]}
      [] ty = "TICTACTOE_INVITE" ->
           {[TYPE |-> ty, FROM |-> f, TO |-> t, GAMEID |-> "g0", MESSAGE_ID |-> "m1",
             SYMBOL |-> "X", TOKEN |-> k]}
      [] ty = "TICTACTOE_MOVE" ->
           {[TYPE |-> ty, FROM |-> f, TO |-> t, GAMEID |-> "g0", MESSAGE_ID |-> "m1",
             POSITION |-> p, SYMBOL |-> "X", TURN |-> 1, TOKEN |-> k] : p \in {0, 1, 2, 9}}
      [] ty = "TICTACTOE_RESULT" ->
           {[TYPE |-> ty, FROM |-> f, TO |-> t, GAMEID |-> "g0", MESSAGE_ID |-> "m1",
             RESULT |-> "WIN", SYMBOL |-> "X", TOKEN |-> k]}
      [] ty = "GROUP_CREATE" ->
           {[TYPE |-> ty, FROM |-> f, GROUP_ID |-> "grp", GROUP_NAME |-> "G",
             MEMBERS |-> <<Alice, t>>, TOKEN |-> k]}
      [] ty = "GROUP_ADD" ->
           {[TYPE |-> ty, FROM |-> f, GROUP_ID |-> "grp", GROUP_NAME |-> "G",
             ADD |-> a, MEMBERS |-> <<Alice, t, Carol>>, TOKEN |-> k] : a \in {<<t>>, <<Carol>>}}
      [] ty = "GROUP_REMOVE" ->
           {[TYPE |-> ty, FROM |-> f, GROUP_ID |-> "grp", REMOVE |-> r, TOKEN |-> k] :
               r \in {<<t>>, <<Alice>>}}
      [] ty = "GROUP_MESSAGE" ->
           {[TYPE |-> ty, FROM |-> f, GROUP_ID |-> "grp", MESSAGE_ID |-> "m1",
             CONTENT |-> "hi", TOKEN |-> k]}
      [] ty = "ACK" ->
           {[TYPE |-> ty, MESSAGE_ID |-> m, STATUS |-> "RECEIVED"] : m \in {"m1", "zz"}}
      [] ty = "PING" -> {[TYPE |-> ty, USER_ID |-> f]}
      [] OTHER -> {[TYPE |-> "PROFILE", USER_ID |-> f, DISPLAY_NAME |-> "Alice"]}

\* which families of controller state hold something
Touched(c) ==
    (IF c.inbox # <<>> \/ c.followers # <<>> THEN {"msg"} ELSE {})
    \cup (IF DOMAIN c.pending_offers # {} \/ DOMAIN c.active_transfers # {}
             \/ DOMAIN c.downloads # {}
          THEN {"file"} ELSE {})
    \cup (IF DOMAIN c.tictactoe_games # {} THEN {"game"} ELSE {})
    \cup (IF c.groups # <<>> THEN {"group"} ELSE {})
    \cup (IF c.op.kind # "idle" THEN {"op"} ELSE {})

\* the part of the state space the model explores
Bounded(c) ==
    /\ Len(c.inbox) <= MaxInbox
    /\ Len(c.followers) <= MaxFollowers
    /\ Len(c.groups) <= MaxGroups
    /\ Cardinality(Touched(c)) <= MaxFamilies
    /\ Cardinality(c.token_blacklist) <= MaxRevoked

RecvInit ==
    /\ now = RecvNow
    /\ ctl = [p \in Procs |-> InitCtl(p)]
    /\ issued = {}
    /\ revoked = {}
    /\ last_op = NoOp
    /\ sent = <<>>
    /\ lastLog = "NONE"
    /\ net = EmptyNet
    /\ fm = InitFm

\* what one step of process B does to the variables
Step(r) ==
    /\ Bounded(r.c)
    /\ ctl' = [ctl EXCEPT !["B"] = r.c]
    /\ sent' = r.out
    /\ lastLog' = r.log
    /\ UNCHANGED <<now, issued, revoked, last_op, net, fm>>

RecvTokKinds == {"good", "malformed"}

\* the datagrams that arrive: from alice's own address every combination of
\* recipient and token, from elsewhere the frame that would otherwise pass
RecvInputs ==
    { i \in [s : Srcs, t : Tos, k : RecvTokKinds] :
        (i.s.ip = IpA /\ i.s.from = Alice) \/ (i.t = Bob /\ i.k = "good") }

\* B's listener takes one datagram off the socket
Recv ==
    \E ty \in Types, i \in RecvInputs :
        \E fr \in Frames(ty, i.s.from, i.t, MkTok(i.k, ScopeOf(ty))) :
            Step(_listen(ctl["B"], fr, i.s.ip))

\* the user at B answers a pending offer
AcceptFile == ctl["B"].op.pc \notin {"wait", "wait_file"} /\ Step(accept_file(ctl["B"], "f1"))
RejectFile == ctl["B"].op.pc \notin {"wait", "wait_file"} /\ Step(reject_file(ctl["B"], "f1"))

\* the user at B starts a DM or a file transfer to alice; within the second
\* this specification covers, the blocked wait can only end by its event
RecvCmdSendDm ==
    /\ ctl["B"].op.pc \notin {"wait", "wait_file"}
    /\ Step(send_dm(ctl["B"], Alice, "m1"))

RecvCmdSendFile ==
    /\ ctl["B"].op.pc \notin {"wait", "wait_file"}
    /\ Step(send_file(ctl["B"], Alice,
                      [filename |-> "b.txt", filesize |-> MAX_CHUNK_SIZE + 1,
                       blocks |-> <<"b0", "b1">>], "f1"))

RecvWaitAcked ==
    /\ ctl["B"].op.pc = "wait"
    /\ ctl["B"].ack_events[ctl["B"].op.message_id]
    /\ Step(OpAcked(ctl["B"]))

RecvFileResponded ==
    /\ ctl["B"].op.pc = "wait_file"
    /\ ctl["B"].file_response_events[ctl["B"].op.message_id]
    /\ Step(FileResponded(ctl["B"]))

RevokeScopes == {"chat", "file"}

\* B puts a token it has seen on its blacklist
RevokeSeen ==
    \E s \in RevokeScopes :
        Step(Res([ctl["B"] EXCEPT !.token_blacklist = revoke_token(MkTok("revoked", s), @)],
                 <<>>, "REVOKED"))

RecvNext ==
    \/ Recv \/ AcceptFile \/ RejectFile \/ RevokeSeen
    \/ RecvCmdSendDm \/ RecvCmdSendFile \/ RecvWaitAcked \/ RecvFileResponded

SpecRecv == RecvInit /\ [][RecvNext]_vars

-----------------------------------------------------------------------------
(* Claims about the receive path, checked under SpecRecv.                  *)

\* FROM / source-address pairs whose IP suffix and source IP differ
Spoofed == { [from |-> Alice, ip |-> IpM],
             [from |-> Bob, ip |-> IpM],
             [from |-> <<"mallory", IpM>>, ip |-> IpA] }

InvalidTokens(s) ==
    { MkTok(k, s) : k \in { kk \in TokKinds :
          ~validate_token(MkTok(kk, s), s, ctl["B"].token_blacklist) } }

\* C7: for every message type that requires a token, an inbound frame from
\* its true sender, addressed to the local user, whose token is malformed,
\* revoked, expired or of the wrong scope changes no state and causes no ACK
\* or other outbound frame.
C7_TokenEnforcement ==
    \A ty \in TokenTypes : \A k \in InvalidTokens(ScopeOf(ty)) :
        \A fr \in Frames(ty, Alice, Bob, k) :
            LET r == _listen(ctl["B"], fr, IpA)
            IN  r.c = ctl["B"] /\ r.out = <<>>

\* C8: for every message type that carries TO, an inbound frame from its
\* true sender with a valid token whose TO is not the local full UserID
\* changes no state and causes no ACK.
C8_WrongRecipientDrop ==
    \A ty \in ToTypes :
        \A fr \in Frames(ty, Alice, Carol, MkTok("good", ScopeOf(ty))) :
            LET r == _listen(ctl["B"], fr, IpA)
            IN  r.c = ctl["B"] /\ r.out = <<>>

-----------------------------------------------------------------------------
(* The send specification: the user at A runs the ACK-waiting operations;  *)
(* A's listener takes PROFILE frames and ACKs, which may or may not come.  *)

MaxSendNow == 14
MsgIds == {"m1"}

SendInit ==
    /\ now = 0
    /\ ctl = [p \in Procs |-> InitCtl(p)]
    /\ issued = {}
    /\ revoked = {}
    /\ last_op = NoOp
    /\ sent = <<>>
    /\ lastLog = "NONE"
    /\ net = EmptyNet
    /\ fm = InitFm

\* what one step of process p does to the variables, at time t
StepAt(p, r, t) ==
    /\ Len(r.c.groups) <= MaxGroups
    /\ t <= MaxSendNow
    /\ ctl' = [ctl EXCEPT ![p] = r.c]
    /\ sent' = r.out
    /\ lastLog' = r.log
    /\ now' = t
    /\ UNCHANGED <<issued, revoked, last_op, net, fm>>

Ready(p) == ctl[p].op.pc \notin {"wait", "wait_file"}
Waiting(p) == ctl[p].op.pc = "wait"

\* A hears the PROFILE broadcast of a peer, or its own
SendRecvProfile ==
    \E u \in {Alice, Bob} :
        StepAt("A", _listen(ctl["A"], [TYPE |-> "PROFILE", USER_ID |-> u,
                                      DISPLAY_NAME |-> u[1]], u[2]), now)

\* an ACK reaches A: for the pending message, or for another one
SendRecvAck ==
    \E m \in {ctl["A"].op.message_id, "zz"} :
        StepAt("A", _listen(ctl["A"], make_ack_message(m), IpB), now)

CmdSendDm == Ready("A") /\ \E m \in MsgIds : StepAt("A", send_dm(ctl["A"], <<"bob">>, m), now)
CmdFollow == Ready("A") /\ \E m \in MsgIds : StepAt("A", follow(ctl["A"], Bob, m), now)
CmdUnfollow == Ready("A") /\ \E m \in MsgIds : StepAt("A", unfollow(ctl["A"], Bob, m), now)
CmdToggleLike == Ready("A") /\ StepAt("A", toggle_like(ctl["A"], "p1", "bob"), now)
CmdGroupCreate == Ready("A") /\ StepAt("A", group_create(ctl["A"], "G", <<Bob>>, "grp"), now)
CmdGroupMessage ==
    /\ Ready("A")
    /\ ctl["A"].groups # <<>>
    /\ \E m \in MsgIds : StepAt("A", group_message(ctl["A"], 1, m), now)

\* the blocked wait returns: True when the event is set, False after
\* RETRY_INTERVAL without it
WaitAcked(p) ==
    /\ Waiting(p)
    /\ ctl[p].ack_events[ctl[p].op.message_id]
    /\ StepAt(p, OpAcked(ctl[p]), now)

WaitTimedOut(p) ==
    /\ Waiting(p)
    /\ ~ctl[p].ack_events[ctl[p].op.message_id]
    /\ StepAt(p, OpTimedOut(ctl[p], now + RETRY_INTERVAL), now + RETRY_INTERVAL)

SendWaitAcked == WaitAcked("A")
SendWaitTimedOut == WaitTimedOut("A")

SendNext ==
    \/ SendRecvProfile \/ SendRecvAck
    \/ CmdSendDm \/ CmdFollow \/ CmdUnfollow \/ CmdToggleLike
    \/ CmdGroupCreate \/ CmdGroupMessage
    \/ SendWaitAcked \/ SendWaitTimedOut

SpecSend == SendInit /\ [][SendNext]_vars

-----------------------------------------------------------------------------
(* Claims about the ACK-waiting operations, checked under SpecSend.        *)

\* C5: every outbound ACK-requiring operation makes at most RETRY_COUNT
\* transmissions, is over within RETRY_COUNT x RETRY_INTERVAL of its start,
\* and ends in either success or exactly one failure report to the caller.
C5_ReliabilityTermination ==
    LET op == ctl["A"].op
    IN  /\ op.sends <= RETRY_COUNT
        /\ op.t1 - op.t0 <= RETRY_COUNT * RETRY_INTERVAL
        /\ op.pc = "done" =>
              \/ op.success = 1 /\ op.failure = 0
              \/ op.success = 0 /\ op.failure = 1


-----------------------------------------------------------------------------
(* Two peers on one LAN: Alice (process A) sends direct messages to Bob     *)
(* (process B).  A datagram put on the wire stays in flight until the       *)
(* receiving process's _listen loop takes it; the LAN may lose at most      *)
(* MaxLost datagrams.  A delivered datagram arrives well inside             *)
(* RETRY_INTERVAL, so a blocked ack_event.wait only times out when nothing  *)
(* is in flight.                                                            *)
-----------------------------------------------------------------------------

MaxLost == 1
MaxDmInbox == 2
DmMsgIds == {"m1", "m2"}

DmInit ==
    /\ now = 0
    /\ ctl = [p \in Procs |-> InitCtl(p)]
    /\ issued = {}
    /\ revoked = {}
    /\ last_op = NoOp
    /\ sent = <<>>
    /\ lastLog = "NONE"
    /\ net = EmptyNet
    /\ fm = InitFm

ProcOfIp(ip) == IF ip = IpA THEN "A" ELSE "B"

\* socket.sendto: the frames of one step, stamped with the sender's address
OnWire(p, out) == { [src |-> IpOfProc(p), to |-> out[i].to, kv |-> out[i].kv] : i \in DOMAIN out }

\* one step of process p at time t that takes `taken` off the wire
DmStep(p, r, t, taken) ==
    /\ ctl' = [ctl EXCEPT ![p] = r.c]
    /\ sent' = r.out
    /\ lastLog' = r.log
    /\ now' = t
    /\ net' = [net EXCEPT !.frames = (@ \ taken) \cup OnWire(p, r.out)]
    /\ UNCHANGED <<issued, revoked, last_op, fm>>

\* a listener hears the other peer's periodic PROFILE broadcast
DmRecvProfile ==
    \E p \in Procs :
        LET q == IF p = "A" THEN "B" ELSE "A"
        IN  DmStep(p, _listen(ctl[p], [TYPE |-> "PROFILE", USER_ID |-> UserOf(q),
                                       DISPLAY_NAME |-> NameOf(q)], IpOfProc(q)), now, {})

\* the REPL command "dm bob <text>"
DmCmdSendDm ==
    /\ Ready("A")
    /\ Len(ctl["B"].inbox) < MaxDmInbox
    /\ \E m \in DmMsgIds : DmStep("A", send_dm(ctl["A"], <<"bob">>, m), now, {})

\* recvfrom returns a datagram in the process it was addressed to
DmDeliver ==
    \E f \in net.frames :
        LET p == ProcOfIp(f.to)
        IN  DmStep(p, _listen(ctl[p], f.kv, f.src), now, {f})

\* the LAN drops a datagram
DmLose ==
    \E f \in net.frames :
        /\ net.lost < MaxLost
        /\ net' = [frames |-> net.frames \ {f}, lost |-> net.lost + 1]
        /\ UNCHANGED <<now, ctl, issued, revoked, last_op, sent, lastLog, fm>>

DmWaitAcked ==
    /\ Waiting("A")
    /\ ctl["A"].ack_events[ctl["A"].op.message_id]
    /\ DmStep("A", OpAcked(ctl["A"]), now, {})

DmWaitTimedOut ==
    /\ Waiting("A")
    /\ ~ctl["A"].ack_events[ctl["A"].op.message_id]
    /\ net.frames = {}
    /\ DmStep("A", OpTimedOut(ctl["A"], now + RETRY_INTERVAL), now + RETRY_INTERVAL, {})

DmNext ==
    \/ DmRecvProfile \/ DmCmdSendDm \/ DmDeliver \/ DmLose
    \/ DmWaitAcked \/ DmWaitTimedOut

\* both listener threads and Alice's command thread keep running
SpecDM ==
    /\ DmInit /\ [][DmNext]_vars
    /\ WF_vars(DmDeliver) /\ WF_vars(DmWaitAcked) /\ WF_vars(DmWaitTimedOut)


\* Alice's send_dm has just made its first transmission, and Bob's inbox
\* holds n entries
DmSending(n) ==
    /\ ctl["A"].op.kind = "send_dm"
    /\ ctl["A"].op.pc = "wait"
    /\ ctl["A"].op.sends = 1
    /\ \E f \in net.frames : f.kv.TYPE = "DM" /\ f.to = IpB
    /\ Len(ctl["B"].inbox) = n

\* send_dm returned with "[DM SENT]" and Bob's inbox grew by Alice's message
DmDelivered(n) ==
    /\ ctl["A"].op.pc = "done"
    /\ ctl["A"].op.success = 1
    /\ ctl["A"].op.failure = 0
    /\ Len(ctl["B"].inbox) > n
    /\ ctl["B"].inbox[Len(ctl["B"].inbox)] \in {<<"DM", "alice", "hi">>, <<"DM", "Alice", "hi">>}

\* a step in which Bob's inbox grows answers the DM it took off the wire with
\* one ACK, to the DM's source, carrying the DM's MESSAGE_ID
DmAcked ==
    Len(ctl'["B"].inbox) > Len(ctl["B"].inbox) =>
        \E f \in net.frames :
            /\ f.kv.TYPE = "DM"
            /\ f.kv.MESSAGE_ID = ctl["A"].op.message_id
            /\ sent' = <<[to |-> IpA, kv |-> make_ack_message(f.kv.MESSAGE_ID)]>>

\* C6: when Alice sends a DM to the known peer Bob with a valid chat token
\* and the LAN delivers (it loses at most MaxLost datagrams), Bob appends the
\* message to his inbox and emits an ACK carrying the same MESSAGE_ID, and
\* Alice's send_dm then unblocks and reports success.
C6_DmDelivery ==
    /\ \A n \in 0..MaxDmInbox : DmSending(n) ~> DmDelivered(n)
    /\ [][DmAcked]_vars

\* a DM went through although a datagram was lost on the way
C6_Witness ==
    /\ ctl["A"].op.kind = "send_dm"
    /\ ctl["A"].op.pc = "done"
    /\ ctl["A"].op.success = 1
    /\ ctl["A"].op.sends > 1
    /\ net.lost > 0
    /\ ctl["B"].inbox # <<>>
    /\ lastLog = "DM SENT"


-----------------------------------------------------------------------------
(* The file-transfer library: ProgressTracker, FileChunkManager,            *)
(* FileTransferManager and FileManager.  A dict keyed by file id is a       *)
(* function; a status is the TransferStatus value; base64 text is           *)
(* [ok, bytes] as in FILE_CHUNK frames.                                     *)
-----------------------------------------------------------------------------

DEFAULT_CHUNK_SIZE == 1024
FileUtils_MAX_CHUNK_SIZE == 8192

\* ProgressTracker.start_transfer: a fresh TransferProgress, IN_PROGRESS,
\* with one ChunkInfo per expected chunk
start_transfer(transfers, file_id, total_size, total_chunks) ==
    Put(transfers, file_id,
        [total_size |-> total_size, total_chunks |-> total_chunks,
         received_chunks |-> 0, status |-> "in_progress",
         chunks |-> [i \in 0..(total_chunks - 1) |-> [received |-> FALSE, size |-> 0]]])

\* ProgressTracker.receive_chunk: a chunk is counted the first time only; the
\* count reaching the total sets COMPLETED
receive_chunk(transfers, file_id, chunk_index, chunk_size) ==
    IF file_id \notin DOMAIN transfers THEN transfers
    ELSE IF chunk_index \notin DOMAIN transfers[file_id].chunks THEN transfers
    ELSE IF transfers[file_id].chunks[chunk_index].received THEN transfers
    ELSE LET p == transfers[file_id]
             q == [p EXCEPT !.chunks[chunk_index] = [received |-> TRUE, size |-> chunk_size],
                            !.received_chunks = @ + 1]
         IN  [transfers EXCEPT ![file_id] =
                 IF q.received_chunks = q.total_chunks
                 THEN [q EXCEPT !.status = "completed"] ELSE q]

\* ProgressTracker.fail_transfer
fail_transfer(transfers, file_id) ==
    IF file_id \notin DOMAIN transfers THEN transfers
    ELSE [transfers EXCEPT ![file_id].status = "failed"]

\* ProgressTracker.cancel_transfer
ProgressTracker_cancel_transfer(transfers, file_id) ==
    IF file_id \notin DOMAIN transfers THEN transfers
    ELSE [transfers EXCEPT ![file_id].status = "cancelled"]

\* FileUtils.calculate_optimal_chunk_size, target_chunks = 50
Max(a, b) == IF a >= b THEN a ELSE b
Min(a, b) == IF a <= b THEN a ELSE b
calculate_optimal_chunk_size(file_size) ==
    IF file_size <= 0 THEN DEFAULT_CHUNK_SIZE
    ELSE Max(DEFAULT_CHUNK_SIZE, Min(file_size \div 50, FileUtils_MAX_CHUNK_SIZE))

\* FileUtils.calculate_total_chunks
calculate_total_chunks(file_size, chunk_size) == (file_size + chunk_size - 1) \div chunk_size

\* ChunkedFile.is_complete
is_complete(chunked_file) == Cardinality(DOMAIN chunked_file.chunks) = chunked_file.total_chunks

\* FileChunkManager.chunk_file: [files, raised].  An empty file raises.  The
\* f.read(chunk_size) loop yields the file's blocks.
chunk_file(active_files, file, file_id) ==
    IF file.filesize = 0 THEN [files |-> active_files, raised |-> TRUE]
    ELSE LET chunk_size == calculate_optimal_chunk_size(file.filesize)
             total_chunks == calculate_total_chunks(file.filesize, chunk_size)
         IN  [files |-> Put(active_files, file_id,
                            [total_size |-> file.filesize, chunk_size |-> chunk_size,
                             total_chunks |-> total_chunks,
                             chunks |-> [i \in 0..(Len(file.blocks) - 1) |-> file.blocks[i + 1]]]),
              raised |-> FALSE]

\* FileChunkManager.add_received_chunk: [files, raised].  The ChunkedFile
\* entry is created before anything is validated; a bad index, undecodable
\* data or a size mismatch raises ValueError; a present chunk is kept.
add_received_chunk(active_files, file_id, total_size, total_chunks, chunk_index, chunk_data, chunk_size) ==
    LET files == IF file_id \in DOMAIN active_files THEN active_files
                 ELSE Put(active_files, file_id,
                          [total_size |-> total_size, chunk_size |-> chunk_size,
                           total_chunks |-> total_chunks, chunks |-> EmptyMap])
    IN  IF chunk_index < 0 \/ chunk_index >= total_chunks
        THEN [files |-> files, raised |-> TRUE]
        ELSE IF chunk_index \in DOMAIN files[file_id].chunks
        THEN [files |-> files, raised |-> FALSE]
        ELSE IF ~chunk_data.ok \/ Len(chunk_data.bytes) # chunk_size
        THEN [files |-> files, raised |-> TRUE]
        ELSE [files |-> [files EXCEPT ![file_id].chunks = Put(@, chunk_index, chunk_data.bytes)],
              raised |-> FALSE]

\* FileChunkManager.cleanup_file
cleanup_file(active_files, file_id) == Del(active_files, file_id)


\* FileManager._handle_transfer_event, one operator per event.  f is the
\* whole library state; a TransferSession is [direction, status,
\* progress_percentage].
_handle_offer_received(f, file_id) ==
    [f EXCEPT !.pending_offers = @ \cup {file_id},
              !.active_sessions = Put(@, file_id,
                  [direction |-> "incoming", status |-> "pending",
                   progress_percentage |-> 0])]

SetSession(f, file_id, status) ==
    IF file_id \in DOMAIN f.active_sessions
    THEN [f EXCEPT !.active_sessions[file_id].status = status]
    ELSE f

_handle_offer_accepted(f, file_id) ==
    SetSession([f EXCEPT !.pending_offers = @ \ {file_id}], file_id, "in_progress")

_handle_offer_rejected(f, file_id) ==
    SetSession([f EXCEPT !.pending_offers = @ \ {file_id}], file_id, "cancelled")

\* progress is the tracker's TransferProgress, or absent
_handle_chunk_received(f, file_id) ==
    IF file_id \in DOMAIN f.active_sessions /\ file_id \in DOMAIN f.transfers
    THEN LET p == f.transfers[file_id]
         IN  [f EXCEPT !.active_sessions[file_id].progress_percentage =
                 IF p.total_chunks = 0 THEN 0
                 ELSE (p.received_chunks * 100) \div p.total_chunks]
    ELSE f

_handle_transfer_completed(f, file_id) ==
    IF file_id \in DOMAIN f.active_sessions
    THEN [f EXCEPT !.active_sessions[file_id].status = "completed",
                   !.active_sessions[file_id].progress_percentage = 100]
    ELSE f

_handle_transfer_failed(f, file_id) == SetSession(f, file_id, "failed")

\* TokenValidator.validate_token_format and extract_scope on user|time|scope
validate_token_format(token) ==
    token # EmptyStr /\ Len(token) = 3 /\ token[1] # "" /\ token[3] # ""
ScopeIsFile(token) == token # EmptyStr /\ Len(token) = 3 /\ token[3] = "file"

\* TokenValidator has no method is_token_valid: the call in
\* FileMessageValidator raises AttributeError, which the validator catches
\* and records as the error "Token validation error"
is_token_valid_raises == TRUE

\* FileOfferMessage.from_dict and FileChunkMessage.from_dict raise KeyError on
\* a missing field
OfferFields == {"FROM", "TO", "FILENAME", "FILESIZE", "FILETYPE", "FILEID", "TIMESTAMP", "TOKEN"}
ChunkFields == {"FROM", "TO", "FILEID", "CHUNK_INDEX", "TOTAL_CHUNKS", "CHUNK_SIZE", "TOKEN", "DATA"}
ReceivedFields == {"FROM", "TO", "FILEID", "STATUS", "TIMESTAMP"}

\* FileOfferMessage.validate
FileOfferMessage_validate(m) ==
    /\ m.FROM # EmptyStr /\ m.TO # EmptyStr /\ m.FILENAME # "" /\ m.FILEID # ""
    /\ m.TOKEN # EmptyStr
    /\ m.FILESIZE > 0
    /\ validate_token_format(m.TOKEN)
    /\ ScopeIsFile(m.TOKEN)

\* FileChunkMessage.validate
FileChunkMessage_validate(m) ==
    /\ m.FROM # EmptyStr /\ m.TO # EmptyStr /\ m.FILEID # "" /\ m.TOKEN # EmptyStr
    /\ m.DATA.ok /\ m.DATA.bytes # <<>>
    /\ m.CHUNK_INDEX >= 0 /\ m.TOTAL_CHUNKS > 0 /\ m.CHUNK_SIZE > 0
    /\ m.CHUNK_INDEX < m.TOTAL_CHUNKS
    /\ Len(m.DATA.bytes) = m.CHUNK_SIZE
    /\ validate_token_format(m.TOKEN)
    /\ ScopeIsFile(m.TOKEN)

\* FileMessageValidator.validate_file_offer: the 'valid' entry of the result
validate_file_offer(m, sender_ip) ==
    /\ FileOfferMessage_validate(m)
    /\ sender_ip = m.FROM[Len(m.FROM)]
    /\ ~is_token_valid_raises

\* FileMessageValidator.validate_file_chunk
validate_file_chunk(m, sender_ip, expected_fileid) ==
    /\ FileChunkMessage_validate(m)
    /\ sender_ip = m.FROM[Len(m.FROM)]
    /\ m.FILEID = expected_fileid
    /\ ~is_token_valid_raises
    /\ m.CHUNK_SIZE <= FileUtils_MAX_CHUNK_SIZE


\* the user the library instance belongs to (FileManager.user_id)
FmUser == Bob

\* an ActiveTransfer is [direction, status, filename, filesize, from_user]
is_pending_acceptance(transfer) ==
    transfer.direction = "incoming" /\ transfer.status = "pending"
is_active(transfer) == transfer.status = "in_progress"

\* FileTransferManager.offer_file: [f, ok].  A missing or empty file ends in
\* the 'error' callback and None; otherwise the file is chunked and an
\* OUTGOING PENDING transfer is recorded.
offer_file(f, to_user, file, file_id) ==
    IF file.filename = "" THEN [f |-> f, ok |-> FALSE]
    ELSE LET ch == chunk_file(f.active_files, file, file_id)
         IN  IF ch.raised THEN [f |-> f, ok |-> FALSE]
             ELSE [f |-> [f EXCEPT !.active_files = ch.files,
                                   !.active_transfers = Put(@, file_id,
                                       [direction |-> "outgoing", status |-> "pending",
                                        filename |-> file.filename,
                                        filesize |-> file.filesize,
                                        from_user |-> FmUser])],
                   ok |-> TRUE]

\* FileTransferManager.handle_file_offer
handle_file_offer(f, kv, sender_ip) ==
    IF ~(OfferFields \subseteq DOMAIN kv) THEN f
    ELSE IF ~validate_file_offer(kv, sender_ip) THEN f
    ELSE IF kv.TO # FmUser THEN f
    ELSE IF kv.FILEID \in DOMAIN f.active_transfers THEN f
    ELSE _handle_offer_received(
             [f EXCEPT !.active_transfers = Put(@, kv.FILEID,
                 [direction |-> "incoming", status |-> "pending",
                  filename |-> kv.FILENAME, filesize |-> kv.FILESIZE,
                  from_user |-> kv.FROM])],
             kv.FILEID)

\* FileTransferManager.accept_file_offer: [f, ok]
FileTransferManager_accept_file_offer(f, file_id) ==
    IF file_id \notin DOMAIN f.active_transfers THEN [f |-> f, ok |-> FALSE]
    ELSE IF ~is_pending_acceptance(f.active_transfers[file_id]) THEN [f |-> f, ok |-> FALSE]
    ELSE LET t == f.active_transfers[file_id]
             g == [f EXCEPT !.active_transfers[file_id].status = "in_progress",
                            !.transfers = start_transfer(@, file_id, t.filesize,
                                calculate_total_chunks(t.filesize, DEFAULT_CHUNK_SIZE))]
         IN  [f |-> _handle_offer_accepted(g, file_id), ok |-> TRUE]

\* FileTransferManager.reject_file_offer: [f, ok]
FileTransferManager_reject_file_offer(f, file_id) ==
    IF file_id \notin DOMAIN f.active_transfers THEN [f |-> f, ok |-> FALSE]
    ELSE IF ~is_pending_acceptance(f.active_transfers[file_id]) THEN [f |-> f, ok |-> FALSE]
    ELSE LET g == [f EXCEPT !.active_files = cleanup_file(@, file_id),
                            !.active_transfers = Del(@, file_id)]
         IN  [f |-> _handle_offer_rejected(g, file_id), ok |-> TRUE]

\* FileTransferManager._fail_transfer
_fail_transfer(f, file_id) ==
    IF file_id \in DOMAIN f.active_transfers
    THEN _handle_transfer_failed(
             [f EXCEPT !.active_transfers[file_id].status = "failed",
                       !.transfers = fail_transfer(@, file_id)], file_id)
    ELSE f

RECURSIVE SumSizes(_, _)
SumSizes(chunks, n) == IF n = 0 THEN 0 ELSE Len(chunks[n - 1]) + SumSizes(chunks, n - 1)

\* FileTransferManager._complete_file_transfer: reconstruct_file writes the
\* chunks in order and raises when the written size is not the offered one
FileTransferManager_complete_file_transfer(f, file_id) ==
    IF file_id \notin DOMAIN f.active_transfers THEN f
    ELSE LET cf == f.active_files[file_id]
         IN  IF file_id \in DOMAIN f.active_files /\ is_complete(cf)
                /\ SumSizes(cf.chunks, cf.total_chunks) = cf.total_size
             THEN _handle_transfer_completed(
                      [f EXCEPT !.active_transfers[file_id].status = "completed"], file_id)
             ELSE _fail_transfer(f, file_id)

\* FileTransferManager.handle_file_chunk
handle_file_chunk(f, kv, sender_ip) ==
    IF ~(ChunkFields \subseteq DOMAIN kv) THEN f
    ELSE IF kv.FILEID \notin DOMAIN f.active_transfers THEN f
    ELSE IF ~validate_file_chunk(kv, sender_ip, kv.FILEID) THEN f
    ELSE IF ~is_active(f.active_transfers[kv.FILEID]) THEN f
    ELSE LET t == f.active_transfers[kv.FILEID]
             a == add_received_chunk(f.active_files, kv.FILEID, t.filesize,
                      kv.TOTAL_CHUNKS, kv.CHUNK_INDEX, kv.DATA, kv.CHUNK_SIZE)
             g == [f EXCEPT !.active_files = a.files]
         IN  IF a.raised THEN g
             ELSE LET h == [g EXCEPT !.transfers = receive_chunk(@, kv.FILEID,
                                         kv.CHUNK_INDEX, kv.CHUNK_SIZE)]
                      d == IF is_complete(h.active_files[kv.FILEID])
                           THEN FileTransferManager_complete_file_transfer(h, kv.FILEID)
                           ELSE h
                  IN  _handle_chunk_received(d, kv.FILEID)


\* FileManager.send_file: a PENDING OUTGOING session when the offer was made
FileManager_send_file(f, to_user, file, file_id) ==
    IF file.filename = "" THEN f
    ELSE LET o == offer_file(f, to_user, file, file_id)
         IN  IF o.ok
             THEN [o.f EXCEPT !.active_sessions = Put(@, file_id,
                       [direction |-> "outgoing", status |-> "pending",
                        progress_percentage |-> 0])]
             ELSE o.f

\* FileManager.accept_file_offer
accept_file_offer(f, file_id) ==
    IF file_id \notin f.pending_offers THEN f
    ELSE LET a == FileTransferManager_accept_file_offer(f, file_id)
         IN  IF a.ok THEN [a.f EXCEPT !.pending_offers = @ \ {file_id}] ELSE a.f

\* FileManager.reject_file_offer
reject_file_offer(f, file_id) ==
    IF file_id \notin f.pending_offers THEN f
    ELSE LET a == FileTransferManager_reject_file_offer(f, file_id)
         IN  IF a.ok THEN [a.f EXCEPT !.pending_offers = @ \ {file_id}] ELSE a.f

\* FileManager.cancel_transfer: any session, whatever its status
cancel_transfer(f, file_id) ==
    IF file_id \in DOMAIN f.active_sessions
    THEN [f EXCEPT !.active_sessions[file_id].status = "cancelled",
                   !.transfers = ProgressTracker_cancel_transfer(@, file_id),
                   !.active_files = cleanup_file(@, file_id)]
    ELSE f

\* FileReceivedMessage.validate
FileReceivedMessage_validate(m) ==
    /\ m.FROM # EmptyStr /\ m.TO # EmptyStr /\ m.FILEID # "" /\ m.STATUS # ""
    /\ m.STATUS \in {"COMPLETE", "FAILED", "CANCELLED"}

\* FileManager._handle_file_received_message
_handle_file_received_message(f, kv, sender_ip) ==
    IF ~(ReceivedFields \subseteq DOMAIN kv) THEN f
    ELSE IF ~FileReceivedMessage_validate(kv) THEN f
    ELSE IF kv.FILEID \in DOMAIN f.active_sessions
    THEN IF kv.STATUS = "COMPLETE"
         THEN [f EXCEPT !.active_sessions[kv.FILEID].status = "completed"]
         ELSE [f EXCEPT !.active_sessions[kv.FILEID].status = "failed"]
    ELSE f

\* FileManager.handle_incoming_message
handle_incoming_message(f, kv, sender_ip) ==
    CASE kv.TYPE = "FILE_OFFER" -> handle_file_offer(f, kv, sender_ip)
      [] kv.TYPE = "FILE_CHUNK" -> handle_file_chunk(f, kv, sender_ip)
      [] kv.TYPE = "FILE_RECEIVED" -> _handle_file_received_message(f, kv, sender_ip)
      [] OTHER -> f


-----------------------------------------------------------------------------
(* The file-transfer implementations side by side at Bob: the controller's  *)
(* own FileTransfer receive path, and the library driven through the        *)
(* public methods of FileManager, ProgressTracker and FileChunkManager (as  *)
(* src/tests drives them).  One clock second, as in SpecRecv.               *)
-----------------------------------------------------------------------------

MaxTotalChunks == 2
FileIds == {"f1"}
FmFiles == { [filename |-> "b.txt", filesize |-> MAX_CHUNK_SIZE + 1,
              blocks |-> <<<<"b0">>, <<"b1">>>>],
             [filename |-> "empty.txt", filesize |-> 0, blocks |-> <<>>],
             NoFile }
ReceivedStatuses == {"COMPLETE", "FAILED", "CANCELLED", "BOGUS"}

\* the file frames alice can send to the library
FmFrames ==
    {[TYPE |-> "FILE_OFFER", FROM |-> Alice, TO |-> Bob, FILENAME |-> "a.txt",
      FILESIZE |-> 2, FILETYPE |-> "text/plain", FILEID |-> id, TIMESTAMP |-> now,
      TOKEN |-> MkTok("good", "file")] : id \in FileIds}
    \cup {[TYPE |-> "FILE_CHUNK", FROM |-> Alice, TO |-> Bob, FILEID |-> id,
           CHUNK_INDEX |-> i, TOTAL_CHUNKS |-> MaxTotalChunks, CHUNK_SIZE |-> 1,
           TOKEN |-> MkTok("good", "file"), DATA |-> d] :
              id \in FileIds, i \in 0..(MaxTotalChunks - 1), d \in ChunkData}
    \cup {[TYPE |-> "FILE_RECEIVED", FROM |-> Alice, TO |-> Bob, FILEID |-> id,
           STATUS |-> st, TIMESTAMP |-> now] : id \in FileIds, st \in ReceivedStatuses}
    \cup {[TYPE |-> "FILE_RECEIVED", FROM |-> Alice, TO |-> Bob, FILEID |-> id,
           STATUS |-> "COMPLETE"] : id \in FileIds}

FmStep(g) ==
    /\ fm' = g
    /\ UNCHANGED <<now, ctl, issued, revoked, last_op, sent, lastLog, net>>

\* the user sends a file: "sendfile alice <path>"
FmSendFile ==
    \E file \in FmFiles, id \in FileIds :
        /\ id \notin DOMAIN fm.active_sessions
        /\ FmStep(FileManager_send_file(fm, Alice, file, id))

\* a file frame is handed to the library
FmIncoming == \E kv \in FmFrames : FmStep(handle_incoming_message(fm, kv, IpA))

FmAccept == \E id \in FileIds : FmStep(accept_file_offer(fm, id))
FmReject == \E id \in FileIds : FmStep(reject_file_offer(fm, id))
FmCancel == \E id \in FileIds : FmStep(cancel_transfer(fm, id))

\* the tracker's own methods
TrackerStart ==
    \E id \in FileIds, n \in 1..MaxTotalChunks :
        /\ id \notin DOMAIN fm.transfers
        /\ FmStep([fm EXCEPT !.transfers = start_transfer(@, id, n, n)])
TrackerReceive ==
    \E id \in FileIds, i \in 0..MaxTotalChunks :
        FmStep([fm EXCEPT !.transfers = receive_chunk(@, id, i, 1)])
TrackerFail == \E id \in FileIds : FmStep([fm EXCEPT !.transfers = fail_transfer(@, id)])
TrackerCancel ==
    \E id \in FileIds : FmStep([fm EXCEPT !.transfers = ProgressTracker_cancel_transfer(@, id)])

\* the chunk manager's own method, for an incoming file of n chunks
ChunkAdd ==
    \E id \in FileIds, n \in 1..MaxTotalChunks, i \in 0..MaxTotalChunks, d \in ChunkData :
        FmStep([fm EXCEPT !.active_files =
                   add_received_chunk(@, id, n, n, i, d, 1).files])

\* the controller's listener at Bob takes a PROFILE or a file frame of alice
FmLcRecv ==
    \E ty \in {"PROFILE", "FILE_OFFER", "FILE_CHUNK"} :
        \E fr \in Frames(ty, Alice, Bob, MkTok("good", "file")) :
            Step(_listen(ctl["B"], fr, IpA))

FmNext ==
    \/ FmSendFile \/ FmIncoming \/ FmAccept \/ FmReject \/ FmCancel
    \/ TrackerStart \/ TrackerReceive \/ TrackerFail \/ TrackerCancel \/ ChunkAdd
    \/ FmLcRecv \/ AcceptFile

SpecFM == RecvInit /\ [][FmNext]_vars


-----------------------------------------------------------------------------
(* Claims about file transfers.                                             *)
-----------------------------------------------------------------------------

\* the moves the status of one transfer record may make in one step
StatusMove(s, t) ==
    \/ t = s
    \/ s = "pending" /\ t \in {"in_progress", "cancelled"}
    \/ s = "in_progress" /\ t \in {"completed", "failed", "cancelled"}

StatusMonotonic(old, new) ==
    \A id \in (DOMAIN old) \cap (DOMAIN new) : StatusMove(old[id].status, new[id].status)

\* C9: under any sequence of offers, accepts, rejects, chunks, FILE_RECEIVED
\* messages, cancels and failures, the status of a transfer (the manager's
\* session, the transfer manager's record, the tracker's progress) only moves
\* pending -> (in-progress | cancelled) -> (completed | failed); it never
\* moves backwards and never leaves completed, failed or cancelled.
C9_StatusMonotonic ==
    [][ /\ StatusMonotonic(fm.active_sessions, fm'.active_sessions)
        /\ StatusMonotonic(fm.active_transfers, fm'.active_transfers)
        /\ StatusMonotonic(fm.transfers, fm'.transfers) ]_vars

\* the FILE_CHUNK frames for chunk i of file id, as alice sends them
ChunkFrames(id, i, total) ==
    {[TYPE |-> "FILE_CHUNK", FROM |-> Alice, TO |-> Bob, FILEID |-> id, CHUNK_INDEX |-> i,
      TOTAL_CHUNKS |-> total, CHUNK_SIZE |-> 1, TOKEN |-> MkTok("good", "file"),
      DATA |-> d] : d \in ChunkData}

\* the controller's FileTransfer: a second receipt of the frame changes nothing
LcChunkIdempotent ==
    \A id \in DOMAIN ctl["B"].active_transfers :
        LET t == ctl["B"].active_transfers[id]
        IN  t.accepted /\ ~t.completed =>
                \A i \in 0..(t.total_chunks - 1) : \A fr \in ChunkFrames(id, i, t.total_chunks) :
                    LET once == _listen(ctl["B"], fr, IpA).c
                    IN  _listen(once, fr, IpA).c = once

\* ProgressTracker.receive_chunk
TrackerChunkIdempotent ==
    \A id \in DOMAIN fm.transfers :
        LET p == fm.transfers[id]
        IN  p.status = "in_progress" =>
                \A i \in 0..(p.total_chunks - 1) :
                    LET once == receive_chunk(fm.transfers, id, i, 1)
                    IN  receive_chunk(once, id, i, 1) = once

\* FileChunkManager.add_received_chunk
ManagerChunkIdempotent ==
    \A id \in DOMAIN fm.active_files :
        LET cf == fm.active_files[id]
        IN  \A i \in 0..(cf.total_chunks - 1), d \in ChunkData :
                LET once == add_received_chunk(fm.active_files, id, cf.total_size,
                                               cf.total_chunks, i, d, 1).files
                IN  add_received_chunk(once, id, cf.total_size,
                                       cf.total_chunks, i, d, 1).files = once

\* FileManager.handle_incoming_message on FILE_CHUNK
LibraryChunkIdempotent ==
    \A id \in FileIds, i \in 0..(MaxTotalChunks - 1) :
        \A fr \in ChunkFrames(id, i, MaxTotalChunks) :
            LET once == handle_incoming_message(fm, fr, IpA)
            IN  handle_incoming_message(once, fr, IpA) = once

\* C10: for a transfer in progress and any chunk index i in [0, total),
\* receiving chunk i twice leaves the transfer (stored chunks, received
\* count, completion flag) as receiving it once does, in the controller's
\* FileTransfer, in the chunk manager and in the progress tracker.
C10_ChunkIdempotence ==
    /\ LcChunkIdempotent
    /\ TrackerChunkIdempotent
    /\ ManagerChunkIdempotent
    /\ LibraryChunkIdempotent

\* transfers in progress that already hold a chunk, in all three
C10_Witness ==
    /\ \E id \in DOMAIN ctl["B"].active_transfers :
           LET t == ctl["B"].active_transfers[id]
           IN  t.accepted /\ ~t.completed /\ t.received_chunks = 1 /\ t.total_chunks = 2
    /\ \E id \in DOMAIN fm.transfers :
           fm.transfers[id].status = "in_progress" /\ fm.transfers[id].received_chunks = 1
    /\ \E id \in DOMAIN fm.active_files :
           Cardinality(DOMAIN fm.active_files[id].chunks) = 1 /\ ~is_complete(fm.active_files[id])

-----------------------------------------------------------------------------
(* Two peers on one LAN: Alice (process A) sends files to Bob (process B)  *)
(* with send_file; the user at Bob answers the offers.  Datagrams in       *)
(* flight form a set: the LAN delivers them in any order and may lose at   *)
(* most MaxLost of them.  Bob's downloads directory is on disk and may     *)
(* hold a file from an earlier run.                                        *)
-----------------------------------------------------------------------------

\* response_event.wait(timeout=60)
FILE_RESPONSE_TIMEOUT == 60

MaxXfers == 2

\* the files Alice can send: the same name, two and three chunks long
XferFiles == { [filename |-> "b.txt", filesize |-> MAX_CHUNK_SIZE + 1,
                blocks |-> <<"b0", "b1">>],
               [filename |-> "b.txt", filesize |-> 2 * MAX_CHUNK_SIZE + 1,
                blocks |-> <<"c0", "c1", "c2">>] }

\* the ids uuid.uuid4() hands out, in the order it does
XferIdSeq == <<"f1", "f2", "f3">>
XferIds == { XferIdSeq[i] : i \in 1..MaxXfers }
IdIndex(id) == IF id = "" THEN 0 ELSE CHOOSE i \in 1..Len(XferIdSeq) : XferIdSeq[i] = id

\* what was in the downloads directory when Bob started
OldDownloads == { EmptyMap, [n \in {"b.txt"} |-> <<"old">>] }

XferInit ==
    /\ now = 0
    /\ \E d \in OldDownloads :
           ctl = [p \in Procs |-> [InitCtl(p) EXCEPT !.downloads =
                                       IF p = "B" THEN d ELSE EmptyMap]]
    /\ issued = {}
    /\ revoked = {}
    /\ last_op = NoOp
    /\ sent = <<>>
    /\ lastLog = "NONE"
    /\ net = EmptyNet
    /\ fm = InitFm

\* uuid.uuid4(): an id no earlier transfer of this run has used
NextFileId(c) == XferIdSeq[IdIndex(c.op.message_id) + 1]

\* the REPL command "sendfile bob <path>"
XferCmdSendFile ==
    /\ Ready("A")
    /\ IdIndex(ctl["A"].op.message_id) < MaxXfers
    /\ \E file \in XferFiles :
           DmStep("A", send_file(ctl["A"], <<"bob">>, file, NextFileId(ctl["A"])), now, {})

\* the REPL commands "acceptfile <id>" and "rejectfile <id>" at Bob
XferAccept == \E id \in XferIds : DmStep("B", accept_file(ctl["B"], id), now, {})
XferReject == \E id \in XferIds : DmStep("B", reject_file(ctl["B"], id), now, {})

\* response_event.wait returned False after FILE_RESPONSE_TIMEOUT
FileTimedOut(c) ==
    Res([FileOpEnd(c, 0, 1) EXCEPT !.op.t1 = now + FILE_RESPONSE_TIMEOUT],
        <<>>, "FILE TIMEOUT")

XferFileResponded ==
    /\ ctl["A"].op.pc = "wait_file"
    /\ ctl["A"].file_response_events[ctl["A"].op.message_id]
    /\ DmStep("A", FileResponded(ctl["A"]), now, {})

XferFileTimedOut ==
    /\ ctl["A"].op.pc = "wait_file"
    /\ ~ctl["A"].file_response_events[ctl["A"].op.message_id]
    /\ DmStep("A", FileTimedOut(ctl["A"]), now + FILE_RESPONSE_TIMEOUT, {})

XferNext ==
    \/ DmRecvProfile \/ XferCmdSendFile \/ DmDeliver \/ DmLose
    \/ XferAccept \/ XferReject \/ XferFileResponded \/ XferFileTimedOut

SpecXfer == XferInit /\ [][XferNext]_vars

-----------------------------------------------------------------------------
(* Claims about file transfer between two peers, checked under SpecXfer.   *)

\* the bytes of the file a transfer record stands for
XferExpected(t) == (CHOOSE file \in XferFiles : file.filesize = t.filesize).blocks

\* this step takes off the wire, and hands to Bob's listener, the one chunk
\* of transfer id that Bob's accepted transfer was still missing
LastChunkLands(id) ==
    /\ id \in DOMAIN ctl["B"].active_transfers
    /\ net'.lost = net.lost
    /\ LET t == ctl["B"].active_transfers[id]
       IN  /\ t.received_chunks = t.total_chunks - 1
           /\ \E f \in net.frames \ net'.frames :
                  /\ f.kv.TYPE = "FILE_CHUNK"
                  /\ f.kv.FILEID = id
                  /\ f.kv.CHUNK_INDEX \notin DOMAIN t.chunks

\* the file is on disk in index order, FILE_RECEIVED COMPLETE went to the
\* sender, and the transfer left the active table
Reassembled(id) ==
    LET t == ctl["B"].active_transfers[id]
    IN  /\ t.filename \in DOMAIN ctl'["B"].downloads
        /\ ctl'["B"].downloads[t.filename] = XferExpected(t)
        /\ sent' = <<[to |-> IpA,
                      kv |-> [TYPE |-> "FILE_RECEIVED", FROM |-> Bob, TO |-> Alice,
                              FILEID |-> id, STATUS |-> "COMPLETE"]]>>
        /\ id \notin DOMAIN ctl'["B"].active_transfers

\* C11: whatever order the chunks of an accepted transfer arrive in, the
\* step in which the received count reaches total_chunks writes the
\* concatenation of chunks 0..total_chunks-1 in index order, emits
\* FILE_RECEIVED with STATUS COMPLETE to the sender and removes the transfer
\* from the active table.
C11_ReassemblyOrderIndependent ==
    [][\A id \in XferIds : LastChunkLands(id) => Reassembled(id)]_vars

\* Bob has just completed the three-chunk file
C11_Witness ==
    /\ lastLog = "FILE COMPLETE"
    /\ "b.txt" \in DOMAIN ctl["B"].downloads
    /\ ctl["B"].downloads["b.txt"] = <<"c0", "c1", "c2">>
    /\ DOMAIN ctl["B"].active_transfers = {}
    /\ Len(sent) = 1
    /\ sent[1].kv.TYPE = "FILE_RECEIVED"

\* C12: completing a received transfer never overwrites an existing file in
\* the downloads directory: every name that is in the directory before a
\* step is still there after it, with the same content.
C12_NoOverwrite ==
    [][\A n \in DOMAIN ctl["B"].downloads :
           /\ n \in DOMAIN ctl'["B"].downloads
           /\ ctl'["B"].downloads[n] = ctl["B"].downloads[n]]_vars

\* the FILE_ACCEPT / FILE_REJECT frame Bob's _send_file_response builds
FileResponseFrame(ty, id) ==
    [to |-> IpA,
     kv |-> [TYPE |-> ty, FROM |-> Bob, TO |-> Alice, FILEID |-> id,
             TOKEN |-> <<Bob, now, "file">>]]

\* C13: a step that takes a pending offer out of Bob's pending_offers either
\* accepts it (it is then in active_transfers and not in pending_offers, and
\* FILE_ACCEPT goes to the offerer) or rejects it (it is in neither table,
\* and FILE_REJECT goes to the offerer).
C13_AcceptRejectEmit ==
    [][\A id \in XferIds :
          (id \in DOMAIN ctl["B"].pending_offers /\ id \notin DOMAIN ctl'["B"].pending_offers)
          => \/ /\ id \in DOMAIN ctl'["B"].active_transfers
                /\ sent' = <<FileResponseFrame("FILE_ACCEPT", id)>>
             \/ /\ id \notin DOMAIN ctl'["B"].active_transfers
                /\ sent' = <<FileResponseFrame("FILE_REJECT", id)>>]_vars

\* the FILE_CHUNK datagrams this step puts on the wire
NewChunkFrames == { f \in net'.frames \ net.frames : f.kv.TYPE = "FILE_CHUNK" }

\* chunks go out only from a send_file that is blocked in its response wait
\* for that file id, inside the deadline, whose waiter a FILE_ACCEPT has set
ChunksOnlyAfterAccept ==
    \A f \in NewChunkFrames :
        LET c == ctl["A"]
            id == f.kv.FILEID
        IN  /\ c.op.kind = "send_file"
            /\ c.op.pc = "wait_file"
            /\ c.op.message_id = id
            /\ id \in DOMAIN c.file_response_events
            /\ c.file_response_events[id]
            /\ c.file_responses[id] = "ACCEPTED"
            /\ now - c.op.t0 < FILE_RESPONSE_TIMEOUT
            /\ id \in DOMAIN ctl["B"].active_transfers

\* a send_file that ended on FILE_REJECT or on the timeout has no chunk of
\* its file on the wire, and no chunk is in flight for an offer Bob has not
\* accepted
NoChunkWhenAbandoned ==
    /\ \A f \in net.frames :
           f.kv.TYPE = "FILE_CHUNK" => f.kv.FILEID \in DOMAIN ctl["B"].active_transfers
    /\ (ctl["A"].op.kind = "send_file" /\ ctl["A"].op.pc = "done" /\ ctl["A"].op.failure = 1)
       => \A f \in net.frames :
              f.kv.TYPE = "FILE_CHUNK" => f.kv.FILEID # ctl["A"].op.message_id

\* C14: the file sender transmits FILE_CHUNK frames for a file id only after
\* a FILE_ACCEPT for that id has signalled its response waiter within the
\* 60 s deadline; after a FILE_REJECT or a timeout no chunk is sent for it.
C14_ChunksGatedOnAccept ==
    /\ [][ChunksOnlyAfterAccept]_vars
    /\ []NoChunkWhenAbandoned

\* the first transfer was accepted and its chunks are in flight; the second
\* one timed out although Bob accepted it, and has no chunk on the wire
C14_Witness ==
    /\ ctl["A"].op.kind = "send_file"
    /\ ctl["A"].op.message_id = "f2"
    /\ ctl["A"].op.pc = "done"
    /\ ctl["A"].op.failure = 1
    /\ ctl["A"].op.t1 - ctl["A"].op.t0 = FILE_RESPONSE_TIMEOUT
    /\ "f2" \in DOMAIN ctl["B"].active_transfers
    /\ \E f \in net.frames : f.kv.TYPE = "FILE_CHUNK" /\ f.kv.FILEID = "f1"

-----------------------------------------------------------------------------
(* The follow specification: the user at A follows and unfollows, itself   *)
(* included; A's listener takes PROFILE, ACK, FOLLOW and UNFOLLOW frames,  *)
(* from bob's address and from A's own address (a datagram sent on the     *)
(* local host).                                                            *)

MaxFolFollowers == 2

\* where a FOLLOW or UNFOLLOW datagram comes from and what its FROM says
FolSrcs == { [from |-> Bob, ip |-> IpB], [from |-> Alice, ip |-> IpA],
             [from |-> Alice, ip |-> IpB] }

FolRecvFollow ==
    \E ty \in {"FOLLOW", "UNFOLLOW"}, s \in FolSrcs, t \in {Alice, Bob} :
        \E fr \in Frames(ty, s.from, t, <<s.from, now, ScopeOf(ty)>>) :
            LET r == _listen(ctl["A"], fr, s.ip)
            IN  /\ Len(r.c.followers) <= MaxFolFollowers
                /\ Len(r.c.inbox) <= MaxFolFollowers + 1
                /\ StepAt("A", r, now)

\* the REPL commands "follow <user>" and "unfollow <user>" with the user's
\* own handle
FolCmdFollowSelf ==
    Ready("A") /\ \E u \in {Alice, <<"alice">>}, m \in MsgIds : StepAt("A", follow(ctl["A"], u, m), now)
FolCmdUnfollowSelf ==
    Ready("A") /\ \E u \in {Alice, <<"alice">>}, m \in MsgIds : StepAt("A", unfollow(ctl["A"], u, m), now)

FolNext ==
    \/ SendRecvProfile \/ SendRecvAck \/ FolRecvFollow
    \/ CmdFollow \/ CmdUnfollow \/ FolCmdFollowSelf \/ FolCmdUnfollowSelf
    \/ SendWaitAcked \/ SendWaitTimedOut

SpecFollow == SendInit /\ [][FolNext]_vars

\* C15: in every reachable state the local user id is a member of neither
\* followers nor following.
C15_NoSelf ==
    /\ Alice \notin ctl["A"].following
    /\ ~InList(ctl["A"].followers, Alice)

-----------------------------------------------------------------------------
(* Two peers on one LAN: Alice (process A) likes and unlikes a post of Bob *)
(* (process B) with toggle_like.  The wire and the schedule are those of   *)
(* SpecDM.                                                                 *)

MaxLikeNow == 12

\* the REPL command "like p1 bob"
LikeCmdToggle ==
    /\ Ready("A")
    /\ now < MaxLikeNow
    /\ DmStep("A", toggle_like(ctl["A"], "p1", "bob"), now, {})

\* an ACK whose MESSAGE_ID is the waiter's key reaches Alice from some other
\* host: the ACK branch checks neither the source nor a token
LikeStrayAck ==
    /\ Waiting("A")
    /\ DmStep("A", _listen(ctl["A"], make_ack_message(ctl["A"].op.message_id), IpM), now, {})

LikeNext ==
    \/ DmRecvProfile \/ LikeCmdToggle \/ DmDeliver \/ DmLose
    \/ DmWaitAcked \/ DmWaitTimedOut \/ LikeStrayAck

\* both listener threads and Alice's command thread keep running
SpecLike ==
    /\ DmInit /\ [][LikeNext]_vars
    /\ WF_vars(DmDeliver) /\ WF_vars(DmWaitAcked) /\ WF_vars(DmWaitTimedOut)

\* toggle_like has just made its first transmission of this action for p1
LikeSending(action) ==
    /\ ctl["A"].op.kind = "toggle_like"
    /\ ctl["A"].op.pc = "wait"
    /\ ctl["A"].op.sends = 1
    /\ \E f \in net.frames : f.kv.TYPE = "LIKE" /\ f.kv["ACTION"] = action /\ f.to = IpB

\* toggle_like returned with a confirmation
LikeConfirmed ==
    /\ ctl["A"].op.kind = "toggle_like"
    /\ ctl["A"].op.pc = "done"
    /\ ctl["A"].op.success = 1

\* C16: liking a post that is not in the like set emits LIKE and, with a
\* responsive peer, the ACK arrives and the set then contains the post;
\* liking it again emits UNLIKE and, once acknowledged, the set no longer
\* contains it.
C16_LikeToggle ==
    /\ LikeSending("LIKE") ~> (LikeConfirmed /\ "p1" \in ctl["A"].post_likes)
    /\ LikeSending("UNLIKE") ~> (LikeConfirmed /\ "p1" \notin ctl["A"].post_likes)

-----------------------------------------------------------------------------
(* send_post: the batched reliability pattern.  The operation is cut at    *)
(* its two time.sleep(RETRY_INTERVAL) calls: pc = "post_sleep_a" is the    *)
(* sleep before a resend pass, pc = "post_sleep_b" the sleep after it.     *)
(* op.message_map is the local message_map (follower id to message id),    *)
(* op.attempt the number of resend passes made.                            *)

\* the TTL and TIMESTAMP fields, which no handler reads, are left out
make_post_message(from_id, content, message_id, token) ==
    [TYPE |-> "POST", USER_ID |-> from_id, CONTENT |-> content,
     MESSAGE_ID |-> message_id, TOKEN |-> token]

\* the POST datagram for follower_id under message_id, with a token minted now
PostFrame(c, follower_id, message_id) ==
    [to |-> c.peer_map[follower_id].ip,
     kv |-> make_post_message(c.full_user_id, "hi", message_id,
                              generate_token(c.full_user_id, "post", TOKEN_TTL))]

\* the first loop of send_post over followers[i..]: a follower that is the
\* local user or not in peer_map is skipped; every other occurrence gets the
\* next uuid, a waiter in self.ack_events, its message_map entry and one send
RECURSIVE PostFirstPass(_, _, _, _)
PostFirstPass(c, i, ids, acc) ==
    IF i > Len(c.followers) THEN acc
    ELSE LET follower_id == c.followers[i]
         IN  IF follower_id = c.full_user_id \/ follower_id \notin DOMAIN c.peer_map
             THEN PostFirstPass(c, i + 1, ids, acc)
             ELSE PostFirstPass(c, i + 1, ids,
                      [ack_events  |-> Put(acc.ack_events, ids[i], FALSE),
                       message_map |-> Put(acc.message_map, follower_id, ids[i]),
                       out         |-> Append(acc.out, PostFrame(c, follower_id, ids[i]))])

\* pending: the followers in message_map whose event is not set
PostPending(c) ==
    { f \in DOMAIN c.op.message_map : ~c.ack_events[c.op.message_map[f]] }

\* a set of follower ids as a sequence, in some fixed order
RECURSIVE SeqOfSet(_)
SeqOfSet(S) ==
    IF S = {} THEN <<>>
    ELSE LET x == CHOOSE y \in S : TRUE IN <<x>> \o SeqOfSet(S \ {x})

PostReport_all(c, t) ==
    LET mids == { c.op.message_map[f] : f \in DOMAIN c.op.message_map }
    IN  Res([c EXCEPT !.ack_events = [m \in (DOMAIN @) \ mids |-> @[m]],
                      !.op = [c.op EXCEPT !.pc = "done", !.t1 = t,
                                          !.success = Cardinality(DOMAIN c.op.message_map)]],
            <<>>, "POST COMPLETE")

\* step 3 of send_post: the count is reported and the tracked waiters deleted
PostReport(c, t) ==
    LET mids == { c.op.message_map[f] : f \in DOMAIN c.op.message_map }
        sent_count == Cardinality({ f \in DOMAIN c.op.message_map :
                                       c.ack_events[c.op.message_map[f]] })
    IN  Res([c EXCEPT !.ack_events = [m \in (DOMAIN @) \ mids |-> @[m]],
                      !.op = [c.op EXCEPT !.pc = "done", !.t1 = t,
                                          !.success = sent_count]],
            <<>>, "POST COMPLETE")

\* the head of the retry loop at time t: it ends when RETRY_COUNT - 1 passes
\* were made or nothing is pending, else the thread sleeps before resending
PostLoopHead(c, t) ==
    IF c.op.attempt + 1 < RETRY_COUNT /\ PostPending(c) # {}
    THEN Res([c EXCEPT !.op.pc = "post_sleep_a", !.op.t1 = t], <<>>, "POST RETRY")
    ELSE PostReport(c, t)

\* send_post up to its first sleep
send_post(c, ids) ==
    IF c.followers = <<>>
    THEN Res([c EXCEPT !.op = [IdleOp EXCEPT !.kind = "send_post", !.pc = "done",
                                             !.t0 = now, !.t1 = now]],
             <<>>, "POST NO FOLLOWERS")
    ELSE LET first == PostFirstPass(c, 1, ids,
                          [ack_events |-> c.ack_events, message_map |-> EmptyMap,
                           out |-> <<>>])
             c1 == [c EXCEPT !.ack_events = first.ack_events,
                             !.op = [IdleOp EXCEPT !.kind = "send_post",
                                                   !.message_map = first.message_map,
                                                   !.sends = Len(first.out),
                                                   !.t0 = now, !.t1 = now]]
             r == PostLoopHead(c1, now)
         IN  Res(r.c, first.out, r.log)

\* the sleep before the resend is over at time t: whoever is still
\* unacknowledged is sent the POST again under the same message id
PostResend(c, t) ==
    LET pending == SeqOfSet(PostPending(c))
    IN  Res([c EXCEPT !.op.pc = "post_sleep_b", !.op.t1 = t,
                      !.op.attempt = @ + 1, !.op.sends = @ + Len(pending)],
            [i \in 1..Len(pending) |->
                [to |-> c.peer_map[pending[i]].ip,
                 kv |-> make_post_message(c.full_user_id, "hi",
                                          c.op.message_map[pending[i]],
                                          <<c.full_user_id, t, "post">>)]],
            "POST RESENT")

\* the sleep after the resend is over at time t
PostAfterResend(c, t) == PostLoopHead(c, t)

-----------------------------------------------------------------------------
(* The post specification: the listener of A takes PROFILE, FOLLOW and ACK *)
(* frames from bob and carol (and a FOLLOW from its own address); the user *)
(* at A posts.                                                             *)

MaxPostFollowers == 2

\* uuid.uuid4() for the follower at each position of the followers list
PostIds == [i \in 1..(MaxPostFollowers + 1) |-> "q" \o ToString(i)]

PostReady == ctl["A"].op.pc \in {"idle", "done"}

PostRecvProfile ==
    \E u \in {Bob, Carol} :
        StepAt("A", _listen(ctl["A"], [TYPE |-> "PROFILE", USER_ID |-> u,
                                      DISPLAY_NAME |-> u[1]], u[2]), now)

PostRecvFollow ==
    \E u \in {Bob, Carol, Alice} :
        \E fr \in Frames("FOLLOW", u, Alice, <<u, now, "follow">>) :
            LET r == _listen(ctl["A"], fr, u[2])
            IN  /\ Len(r.c.followers) <= MaxPostFollowers
                /\ StepAt("A", [r EXCEPT !.c.inbox = <<>>], now)

\* an ACK reaches A: for a waiter it holds, or for none
PostRecvAck ==
    \E m \in (DOMAIN ctl["A"].ack_events) \cup {"zz"} :
        StepAt("A", _listen(ctl["A"], make_ack_message(m), IpB), now)

\* the REPL command "post <text>", early enough for the operation to end
PostCmdSendPost ==
    /\ PostReady
    /\ now + 2 * RETRY_INTERVAL * (RETRY_COUNT - 1) <= MaxSendNow
    /\ StepAt("A", send_post(ctl["A"], PostIds), now)

PostWakeResend ==
    /\ ctl["A"].op.pc = "post_sleep_a"
    /\ StepAt("A", PostResend(ctl["A"], now + RETRY_INTERVAL), now + RETRY_INTERVAL)

PostWakeAfterResend ==
    /\ ctl["A"].op.pc = "post_sleep_b"
    /\ StepAt("A", PostAfterResend(ctl["A"], now + RETRY_INTERVAL), now + RETRY_INTERVAL)

PostNext ==
    \/ PostRecvProfile \/ PostRecvFollow \/ PostRecvAck
    \/ PostCmdSendPost \/ PostWakeResend \/ PostWakeAfterResend

SpecPost == SendInit /\ [][PostNext]_vars


\* the step that starts a post, and the step that reports its count
PostStarts ==
    /\ PostReady
    /\ ctl'["A"].op # ctl["A"].op
    /\ ctl'["A"].op.kind = "send_post"
PostReports ==
    /\ ctl'["A"].op # ctl["A"].op
    /\ ctl'["A"].op.kind = "send_post"
    /\ ctl'["A"].op.pc = "done"

\* every tracked follower was sent one POST under its message id, and no
\* two tracked followers share a message id
PostOwnIds ==
    LET mm == ctl'["A"].op.message_map
    IN  /\ \A f \in DOMAIN mm :
              \E i \in 1..Len(sent') :
                  /\ sent'[i].to = ctl["A"].peer_map[f].ip
                  /\ sent'[i].kv.TYPE = "POST"
                  /\ sent'[i].kv.MESSAGE_ID = mm[f]
        /\ \A f, g \in DOMAIN mm : f # g => mm[f] # mm[g]

\* the count reported is the number of tracked followers whose own message
\* id was acknowledged before the report
PostCountsAcked ==
    LET mm == ctl'["A"].op.message_map
    IN  ctl'["A"].op.success =
            Cardinality({ f \in DOMAIN mm : /\ mm[f] \in DOMAIN ctl["A"].ack_events
                                            /\ ctl["A"].ack_events[mm[f]] })

\* a resend goes to the followers still unacknowledged, under their ids
PostResendsPending ==
    (ctl["A"].op.pc = "post_sleep_a" /\ ctl'["A"].op.pc = "post_sleep_b") =>
        /\ Len(sent') = Cardinality(PostPending(ctl["A"]))
        /\ \A f \in PostPending(ctl["A"]) :
              \E i \in 1..Len(sent') :
                  /\ sent'[i].to = ctl["A"].peer_map[f].ip
                  /\ sent'[i].kv.MESSAGE_ID = ctl["A"].op.message_map[f]

PostPasses == IF ctl["A"].op.kind = "send_post" THEN ctl["A"].op.attempt ELSE 0

-----------------------------------------------------------------------------
(* The group specification: four peers on one LAN.  alice owns the group;  *)
(* alice and bob are the users who type commands.                          *)

IpC == "10.0.0.4"
IpD == "10.0.0.5"
Dave == <<"dave", IpD>>

GrpProcs == {"A", "B", "C", "D"}
GrpTypers == {"A", "B"}

GrpUser(p) ==
    CASE p = "A" -> Alice [] p = "B" -> Bob [] p = "C" -> Carol [] OTHER -> Dave

GrpProcOfIp(ip) == CHOOSE p \in GrpProcs : GrpUser(p)[2] = ip

make_group_add_message(from_user_id, group_id, group_name, add, members, token) ==
    [TYPE |-> "GROUP_ADD", FROM |-> from_user_id, GROUP_ID |-> group_id,
     GROUP_NAME |-> group_name, ADD |-> add, MEMBERS |-> members, TOKEN |-> token]

make_group_remove_message(from_user_id, group_id, remove, token) ==
    [TYPE |-> "GROUP_REMOVE", FROM |-> from_user_id, GROUP_ID |-> group_id,
     REMOVE |-> remove, TOKEN |-> token]

\* the members before the first one that is not in peer_map
RECURSIVE KnownPrefix(_, _)
KnownPrefix(c, members) ==
    IF members = <<>> \/ Head(members) \notin DOMAIN c.peer_map THEN <<>>
    ELSE <<Head(members)>> \o KnownPrefix(c, Tail(members))

group_add_newonly(c, group_index, parts) ==
    IF \E i \in 1..Len(parts) : parts[i] \notin DOMAIN c.peer_map
    THEN Res(c, <<>>, "ERROR UNKNOWN PEER")
    ELSE LET g == c.groups[group_index]
             members == g.members \o parts
             msg == make_group_add_message(c.full_user_id, g.group_id, g.group_name,
                        parts, members,
                        generate_token(c.full_user_id, "group", TOKEN_TTL))
         IN  Res([c EXCEPT !.groups[group_index].members = members],
                 [i \in 1..Len(parts) |-> [to |-> c.peer_map[parts[i]].ip, kv |-> msg]],
                 "GROUP ADD")

\* group_add: the new members join the local list, and one frame with the
\* whole list goes to every member of it; a member missing from peer_map
\* ends the sending loop with a KeyError
group_add(c, group_index, parts) ==
    IF \E i \in 1..Len(parts) : parts[i] \notin DOMAIN c.peer_map
    THEN Res(c, <<>>, "ERROR UNKNOWN PEER")
    ELSE LET g == c.groups[group_index]
             members == g.members \o parts
             msg == make_group_add_message(c.full_user_id, g.group_id, g.group_name,
                        parts, members,
                        generate_token(c.full_user_id, "group", TOKEN_TTL))
             reached == KnownPrefix(c, members)
         IN  Res([c EXCEPT !.groups[group_index].members = members],
                 [i \in 1..Len(reached) |-> [to |-> c.peer_map[reached[i]].ip, kv |-> msg]],
                 IF Len(reached) = Len(members) THEN "GROUP ADD" ELSE "ERROR")

GrpInit ==
    /\ now = 0
    /\ ctl = [p \in GrpProcs |->
                 [InitCtl("A") EXCEPT !.full_user_id = GrpUser(p),
                                      !.display_name = GrpUser(p)[1]]]
    /\ issued = {}
    /\ revoked = {}
    /\ last_op = NoOp
    /\ sent = <<>>
    /\ lastLog = "NONE"
    /\ net = EmptyNet
    /\ fm = InitFm

\* one step of process p at time t that takes `taken` off the wire
GrpStep(p, r, t, taken) ==
    /\ ctl' = [ctl EXCEPT ![p] = r.c]
    /\ sent' = r.out
    /\ lastLog' = r.log
    /\ now' = t
    /\ net' = [net EXCEPT !.frames = (@ \ taken) \cup
                   { [src |-> GrpUser(p)[2], to |-> r.out[i].to, kv |-> r.out[i].kv] :
                       i \in DOMAIN r.out }]
    /\ UNCHANGED <<issued, revoked, last_op, fm>>

\* the periodic PROFILE broadcast of q is heard by a peer that types commands
GrpHearProfile ==
    \E p \in GrpTypers, q \in GrpProcs :
        /\ p = "A" => q # "A"
        /\ GrpStep(p, _listen(ctl[p], [TYPE |-> "PROFILE", USER_ID |-> GrpUser(q),
                                       DISPLAY_NAME |-> GrpUser(q)[1]], GrpUser(q)[2]),
                   now, {})

GrpOnWire(ty) == { f \in net.frames : f.kv.TYPE = ty }

\* "group create G bob,carol" at alice
GrpCmdCreate ==
    /\ ctl["A"].groups = <<>>
    /\ Ready("A")
    /\ GrpStep("A", group_create(ctl["A"], "G", <<Bob, Carol>>, "grp"), now, {})

\* "group add 0 dave" at alice, typed once the GROUP_CREATE datagrams have
\* left the wire (handled or lost)
GrpCmdAdd ==
    /\ ctl["A"].groups # <<>>
    /\ ~InList(ctl["A"].groups[1].members, Dave)
    /\ GrpOnWire("GROUP_CREATE") = {}
    /\ Ready("A")
    /\ GrpStep("A", group_add(ctl["A"], 1, <<Dave>>), now, {})

\* "group message 0 <text>" at bob, once
GrpCmdMessage ==
    /\ ctl["B"].op.pc = "idle"
    /\ ctl["B"].groups # <<>>
    /\ GrpStep("B", group_message(ctl["B"], 1, "g1"), now, {})

\* recvfrom returns a datagram in the process it was addressed to
GrpDeliver ==
    \E f \in net.frames :
        LET p == GrpProcOfIp(f.to)
        IN  GrpStep(p, _listen(ctl[p], f.kv, f.src), now, {f})

GrpWaitAcked ==
    /\ Waiting("B")
    /\ ctl["B"].ack_events[ctl["B"].op.message_id]
    /\ GrpStep("B", OpAcked(ctl["B"]), now, {})

GrpWaitTimedOut ==
    /\ Waiting("B")
    /\ ~ctl["B"].ack_events[ctl["B"].op.message_id]
    /\ net.frames = {}
    /\ GrpStep("B", OpTimedOut(ctl["B"], now + RETRY_INTERVAL), now + RETRY_INTERVAL, {})

GrpNext ==
    \/ GrpHearProfile \/ GrpCmdCreate \/ GrpCmdAdd \/ GrpCmdMessage
    \/ GrpDeliver \/ DmLose \/ GrpWaitAcked \/ GrpWaitTimedOut

SpecGroup == GrpInit /\ [][GrpNext]_vars


-----------------------------------------------------------------------------
(* Claims about groups, checked under SpecGroup.                           *)

\* what a peer q other than the owner of g can send about g from its own
\* address, with its own valid group token
GrpFromOther(q, g) ==
    LET k == <<GrpUser(q), now, "group">>
    IN  { make_group_add_message(GrpUser(q), g.group_id, g.group_name, <<Dave>>,
                                 g.members \o <<Dave>>, k),
          make_group_remove_message(GrpUser(q), g.group_id, <<Carol>>, k) }

\* C18: an inbound GROUP_ADD or GROUP_REMOVE changes a group's membership
\* only if its FROM is the recorded owner of that group; the same frame from
\* any other peer leaves the receiver's group records unchanged.
C18_OwnerOnly ==
    \A p \in GrpProcs, q \in GrpProcs :
        \A i \in 1..Len(ctl[p].groups) :
            LET g == ctl[p].groups[i]
            IN  (q # p /\ GrpUser(q) # g.owner_id) =>
                    \A fr \in GrpFromOther(q, g) :
                        _listen(ctl[p], fr, GrpUser(q)[2]).c.groups = ctl[p].groups

\* the owner's create and add are over: alice lists dave, every GROUP_CREATE
\* and GROUP_ADD datagram was handled and none was lost
GrpScenarioDone ==
    /\ ctl["A"].groups # <<>>
    /\ InList(ctl["A"].groups[1].members, Dave)
    /\ GrpOnWire("GROUP_CREATE") = {}
    /\ GrpOnWire("GROUP_ADD") = {}
    /\ net.lost = 0

\* the scenario with `members` as the MEMBERS field and member list:
\* the GROUP_ADD goes to bob, carol and dave with MEMBERS = members; dave
\* inserts the group, bob and carol update the record they hold; at the
\* end all four peers hold the group with that member list
GrpAddSends(members) ==
    lastLog' = "GROUP ADD" =>
        /\ { sent'[i].to : i \in 1..Len(sent') } = {IpB, IpC, IpD}
        /\ \A i \in 1..Len(sent') :
              /\ sent'[i].kv.TYPE = "GROUP_ADD"
              /\ sent'[i].kv.MEMBERS = members

GrpAddHandled(members) ==
    \A p \in GrpProcs :
        (lastLog' = "GROUP_ADD" /\ ctl'[p] # ctl[p]) =>
            IF p = "D"
            THEN /\ FindGroup(ctl[p].groups, "grp") = 0
                 /\ ctl'[p].groups = Append(ctl[p].groups, Group("grp", "G", Alice, members))
            ELSE /\ FindGroup(ctl[p].groups, "grp") = 1
                 /\ ctl'[p].groups = <<Group("grp", "G", Alice, members)>>

GrpAllHold(members) ==
    GrpScenarioDone =>
        \A p \in GrpProcs : ctl[p].groups = <<Group("grp", "G", Alice, members)>>

GrpMsgFanout ==
    /\ (ctl["B"].op.pc = "idle" /\ ctl'["B"].op.pc = "wait") =>
           LET g == ctl["B"].groups[1]
           IN  \A i \in 1..Len(g.members) \cup {0} :
                   LET m == IF i = 0 THEN g.owner_id ELSE g.members[i]
                   IN  m # Bob => InList(ctl'["B"].op.rcpts, m)
    /\ (ctl'["B"].op.pc = "wait" /\ ctl'["B"].op.sends > ctl["B"].op.sends) =>
           /\ Len(sent') = 1
           /\ sent'[1].kv.TYPE = "GROUP_MESSAGE"
           /\ sent'[1].to = ctl'["B"].op.rcpts[ctl'["B"].op.rcpt][2]

\* C20: a GROUP_MESSAGE sent by a member of a group is transmitted to every
\* other member, the owner included, and each member that receives it
\* appends it to its inbox.
C20_GroupMessage ==
    [][/\ GrpMsgFanout
       /\ lastLog' = "GROUP MESSAGE" =>
              \E p \in GrpProcs : Len(ctl'[p].inbox) = Len(ctl[p].inbox) + 1]_vars


-----------------------------------------------------------------------------
(* The game specification: alice invites bob to tic-tac-toe as X and the   *)
(* two users type the moves of the scenario, each when the own board shows *)
(* that it is their turn; the wire reorders and loses datagrams.           *)

make_tictaceto_invite_message(from_user_id, to_user_id, game_id, msg_id, symbol, token) ==
    [TYPE |-> "TICTACTOE_INVITE", FROM |-> from_user_id, TO |-> to_user_id,
     GAMEID |-> game_id, MESSAGE_ID |-> msg_id, SYMBOL |-> symbol, TOKEN |-> token]

make_tictactoe_move_message(from_user_id, to_user_id, gameid, message_id, symbol, position, turn, token) ==
    [TYPE |-> "TICTACTOE_MOVE", FROM |-> from_user_id, TO |-> to_user_id,
     GAMEID |-> gameid, MESSAGE_ID |-> message_id, POSITION |-> position,
     SYMBOL |-> symbol, TURN |-> turn, TOKEN |-> token]

\* send_tictactoe_invite: the game is stored under g<number of games> and the
\* invitation sent once
send_tictactoe_invite(c, recipient_id, symbol) ==
    LET rid == Resolve(c, recipient_id)
        gameid == "g" \o ToString(Cardinality(DOMAIN c.tictactoe_games) % 256)
    IN  IF symbol \notin {"X", "O"} THEN Res(c, <<>>, "ERROR SYMBOL")
        ELSE IF rid \notin DOMAIN c.peer_map THEN Res(c, <<>>, "ERROR UNKNOWN PEER")
        ELSE Res([c EXCEPT !.tictactoe_games = Put(@, gameid,
                     [board |-> EmptyBoard, my_symbol |-> symbol, opponent |-> rid,
                      turn |-> 0, active |-> TRUE])],
                 <<[to |-> c.peer_map[rid].ip,
                    kv |-> make_tictaceto_invite_message(c.full_user_id, rid, gameid, "i1",
                               symbol, generate_token(c.full_user_id, "game", TOKEN_TTL))]>>,
                 "GAME INVITE SENT")

\* send_tictactoe_move: the own symbol is put on the board and the move sent;
\* when the board has a winner or is full the result follows in the same call
send_tictactoe_move(c, gameid, position) ==
    IF gameid \notin DOMAIN c.tictactoe_games \/ ~c.tictactoe_games[gameid].active
    THEN Res(c, <<>>, "NO ACTIVE GAME")
    ELSE IF (IF position < 0 \/ position > 8 THEN TRUE
             ELSE c.tictactoe_games[gameid].board[position + 1] # " ")
    THEN Res(c, <<>>, "INVALID MOVE")
    ELSE LET game == c.tictactoe_games[gameid]
             c1 == [c EXCEPT !.tictactoe_games[gameid].board[position + 1] = game.my_symbol,
                             !.tictactoe_games[gameid].turn = @ + 1]
             board == c1.tictactoe_games[gameid].board
             winner == _check_ttt_winner(board)
             move == [to |-> c.peer_map[game.opponent].ip,
                      kv |-> make_tictactoe_move_message(c.full_user_id, game.opponent,
                                 gameid, "v1", game.my_symbol, position, game.turn + 1,
                                 generate_token(c.full_user_id, "game", TOKEN_TTL))]
         IN  IF game.opponent \notin DOMAIN c.peer_map THEN Res(c1, <<>>, "ERROR")
             ELSE IF winner = "None" THEN Res(c1, <<move>>, "GAME MOVE SENT")
             ELSE LET r == send_tictactoe_result(c1, gameid, winner, _check_ttt_line(board))
                  IN  Res(r.c, <<move>> \o r.out, r.log)

\* the moves of the scenario: alice, who is X, plays 0, 4, 8; bob plays 1, 2
ScenarioMoves(p) == IF p = "A" THEN <<0, 4, 8>> ELSE <<1, 2>>

Marks(board, sym) == Cardinality({ i \in 1..9 : board[i] = sym })

\* "ttt bob X" at alice, once: the scenario is one game, started at time 0
\* with a peer alice has discovered
GameCmdInvite ==
    /\ now = 0
    /\ Bob \in DOMAIN ctl["A"].peer_map
    /\ DmStep("A", send_tictactoe_invite(ctl["A"], <<"bob">>, "X"), now + 1, {})

\* a user types the next move of the scenario when the own board shows that
\* it is their turn
GameCmdMove ==
    \E p \in Procs :
        /\ "g0" \in DOMAIN ctl[p].tictactoe_games
        /\ LET game == ctl[p].tictactoe_games["g0"]
               mine == Marks(game.board, game.my_symbol)
               theirs == Marks(game.board, IF game.my_symbol = "X" THEN "O" ELSE "X")
           IN  /\ mine < Len(ScenarioMoves(p))
               /\ theirs = (IF p = "A" THEN mine ELSE mine + 1)
               /\ DmStep(p, send_tictactoe_move(ctl[p], "g0", ScenarioMoves(p)[mine + 1]),
                         now, {})

\* a user types a move that send_tictactoe_move refuses: a taken cell, a
\* cell off the board, or any cell once the own game has ended
GameCmdBadMove ==
    \E p \in Procs, position \in {0, 9} :
        /\ "g0" \in DOMAIN ctl[p].tictactoe_games
        /\ LET game == ctl[p].tictactoe_games["g0"]
           IN  IF ~game.active \/ position = 9 THEN TRUE
               ELSE game.board[position + 1] # " "
        /\ DmStep(p, send_tictactoe_move(ctl[p], "g0", position), now, {})

GameNext ==
    \/ DmRecvProfile \/ GameCmdInvite \/ GameCmdMove \/ GameCmdBadMove
    \/ DmDeliver \/ DmLose

SpecGame == DmInit /\ [][GameNext]_vars


-----------------------------------------------------------------------------
(* Claims about the game, checked under SpecGame.                          *)

\* the board after A0, B1, A4, B2, A8
ScenarioBoard ==
    [i \in 1..9 |-> IF i \in {1, 5, 9} THEN "X" ELSE IF i \in {2, 3} THEN "O" ELSE " "]

GameHeld(p) == "g0" \in DOMAIN ctl[p].tictactoe_games
GameActive(p) == GameHeld(p) /\ ctl[p].tictactoe_games["g0"].active

\* the step in which the board of p becomes the scenario's final board
GameCompletes(p) ==
    /\ GameHeld(p)
    /\ ctl[p].tictactoe_games["g0"].board # ScenarioBoard
    /\ "g0" \in DOMAIN ctl'[p].tictactoe_games
    /\ ctl'[p].tictactoe_games["g0"].board = ScenarioBoard

\* A's third move: the move and then the result WIN with line 0,4,8 go to B
GameWinnerEmits ==
    GameCompletes("A") =>
        /\ Len(sent') = 2
        /\ sent'[1].kv.TYPE = "TICTACTOE_MOVE" /\ sent'[1].kv.POSITION = 8
        /\ sent'[2].to = IpB
        /\ sent'[2].kv.TYPE = "TICTACTOE_RESULT"
        /\ sent'[2].kv.RESULT = "WIN"
        /\ sent'[2].kv.WINNING_LINE = <<0, 4, 8>>
        /\ ~ctl'["A"].tictactoe_games["g0"].active

\* B, handling that move, reports the game as its LOSS
GameLoserRecords ==
    GameCompletes("B") =>
        /\ Len(sent') = 1
        /\ sent'[1].to = IpA
        /\ sent'[1].kv.TYPE = "TICTACTOE_RESULT"
        /\ sent'[1].kv.RESULT = "LOSS"
        /\ lastLog' = "GAME ENDED"
        /\ ~ctl'["B"].tictactoe_games["g0"].active

\* with nothing in flight and nothing lost the game is active on both peers
\* or on neither, and two ended games show the same board
GameEndsAlike ==
    /\ (net.frames = {} /\ net.lost = 0) => (GameActive("A") <=> GameActive("B"))
    /\ (GameHeld("A") /\ GameHeld("B") /\ ~GameActive("A") /\ ~GameActive("B")) =>
           /\ ctl["A"].tictactoe_games["g0"].board = ScenarioBoard
           /\ ctl["B"].tictactoe_games["g0"].board = ScenarioBoard

\* C21: with A as X and moves A0, B1, A4, B2, A8, A's third move completes
\* the line 0,4,8: A emits TICTACTOE_RESULT with RESULT=WIN and WINNING_LINE
\* 0,4,8; B, handling the move, records the outcome as a LOSS; and the game
\* ends inactive on both peers with identical boards.
C21_TicTacToeWin ==
    /\ [][GameWinnerEmits /\ GameLoserRecords]_vars
    /\ []GameEndsAlike

\* both peers hold the ended game with the final board, and B's LOSS report
\* is on its way to A
C21_Witness ==
    /\ GameHeld("A") /\ GameHeld("B") /\ ~GameActive("A") /\ ~GameActive("B")
    /\ ctl["A"].tictactoe_games["g0"].board = ScenarioBoard
    /\ ctl["B"].tictactoe_games["g0"].board = ScenarioBoard
    /\ \E f \in net.frames : f.src = IpB /\ f.kv.TYPE = "TICTACTOE_RESULT"
                              /\ f.kv.RESULT = "LOSS"


-----------------------------------------------------------------------------
(* The name specification: alice hears peers of which two share the handle *)
(* bob, and types commands with short handles.                             *)

Bob2 == <<"bob", IpM>>
Handles == {<<"bob">>, <<"carol">>, <<"dave">>}

NameRecvProfile ==
    \E u \in {Bob, Bob2, Carol} :
        StepAt("A", _listen(ctl["A"], [TYPE |-> "PROFILE", USER_ID |-> u,
                                      DISPLAY_NAME |-> u[1]], u[2]), now)

NameCmdSendDm ==
    /\ Ready("A")
    /\ \E h \in Handles : StepAt("A", send_dm(ctl["A"], h, "m1"), now)

NameCmdFollow ==
    /\ Ready("A")
    /\ \E h \in Handles : StepAt("A", follow(ctl["A"], h, "m1"), now)

NameNext ==
    \/ NameRecvProfile \/ NameCmdSendDm \/ NameCmdFollow
    \/ SendRecvAck \/ SendWaitAcked \/ SendWaitTimedOut

SpecName == SendInit /\ [][NameNext]_vars

\* the known peers whose UserID starts with "handle@"
Matches(h) == { u \in DOMAIN ctl["A"].peer_map : u[1] = h[1] }

\* a send_dm or follow typed with a short handle has just made its first
\* transmission
NameSends ==
    /\ Ready("A")
    /\ ctl'["A"].op.pc = "wait"
    /\ sent' # <<>>

\* C22: a short handle resolves to a full UserID only when exactly one known
\* peer matches handle@...; when more than one peer matches, the operation
\* reports a user-visible error and sends no frame to any peer.
C22_HandleResolution ==
    [][NameSends => Cardinality(Matches(<<ctl'["A"].op.to[1]>>)) = 1]_vars


-----------------------------------------------------------------------------
(* The codec.  A str is a sequence of characters; a fields dict is the     *)
(* sequence of its (key, value) items in insertion order, a value being a  *)
(* str or an int; the dict parse returns is a function from keys to strs.  *)

MaxValLen == 2

NL == "\n"

\* a value of the dict: a python str or a python int, the int written by its digits
StrVal(chars) == [ty |-> "str", s |-> chars]
IntVal(digits) == [ty |-> "int", s |-> digits]

\* str(value) inside the f-string: a str is itself, an int its decimal digits
StrOf(v) == v.s

\* sep.join(parts)
RECURSIVE Join(_, _)
Join(parts, sep) ==
    IF parts = <<>> THEN <<>>
    ELSE IF Len(parts) = 1 THEN parts[1]
    ELSE parts[1] \o sep \o Join(Tail(parts), sep)

\* format_kv_message: "key: value" lines joined by "\n", then "\n\n"
format_kv_message(fields) ==
    Join([i \in 1..Len(fields) |-> fields[i][1] \o <<":", " ">> \o StrOf(fields[i][2])],
         <<NL>>) \o <<NL, NL>>

IsSpace(ch) == ch \in {" ", NL}

\* str.strip()
RECURSIVE LStrip(_)
LStrip(s) == IF s # <<>> /\ IsSpace(Head(s)) THEN LStrip(Tail(s)) ELSE s
RECURSIVE RStrip(_)
RStrip(s) == IF s # <<>> /\ IsSpace(s[Len(s)]) THEN RStrip(SubSeq(s, 1, Len(s) - 1)) ELSE s
Strip(s) == RStrip(LStrip(s))

\* str.splitlines(): no line for the empty str, none after a final "\n"
RECURSIVE SplitLines(_)
SplitLines(s) ==
    IF s = <<>> THEN <<>>
    ELSE IF \E i \in 1..Len(s) : s[i] = NL
    THEN LET i == CHOOSE j \in 1..Len(s) : s[j] = NL /\ \A k \in 1..(j - 1) : s[k] # NL
         IN  <<SubSeq(s, 1, i - 1)>> \o SplitLines(SubSeq(s, i + 1, Len(s)))
    ELSE <<s>>

\* where ": " first occurs in the line, 0 when it does not
SepAt(line) ==
    IF \E i \in 1..(Len(line) - 1) : line[i] = ":" /\ line[i + 1] = " "
    THEN CHOOSE i \in 1..(Len(line) - 1) :
             /\ line[i] = ":" /\ line[i + 1] = " "
             /\ \A k \in 1..(i - 1) : ~(line[k] = ":" /\ line[k + 1] = " ")
    ELSE 0

\* dict(line.split(": ", 1) for line in lines if ": " in line), from line i on
RECURSIVE DictOfLines(_, _, _)
DictOfLines(lines, i, acc) ==
    IF i > Len(lines) THEN acc
    ELSE LET at == SepAt(lines[i])
         IN  IF at = 0 THEN DictOfLines(lines, i + 1, acc)
             ELSE DictOfLines(lines, i + 1,
                      Put(acc, SubSeq(lines[i], 1, at - 1),
                          StrVal(SubSeq(lines[i], at + 2, Len(lines[i])))))

parse_kv_message(msg) == DictOfLines(SplitLines(Strip(msg)), 1, EmptyMap)

\* the characters, values and dicts the codec is tried on
CodecChars == {"a", " ", ":", NL}
CodecStrs == UNION { [1..n -> CodecChars] : n \in 0..MaxValLen }
CodecValues == { StrVal(x) : x \in CodecStrs } \cup {IntVal(<<"7">>), IntVal(<<"4", "2">>)}
CodecInputs ==
    { << <<<<"T">>, StrVal(<<"D">>)>> >> }
    \cup { << <<<<"T">>, StrVal(<<"D">>)>>, <<<<"k">>, v>> >> : v \in CodecValues }
    \cup { << <<<<"T">>, StrVal(<<"D">>)>>, <<<<"k">>, v>>, <<<<"z">>, StrVal(<<"a">>)>> >> : v \in CodecValues }

CodecInit ==
    /\ now = 0
    /\ ctl = [p \in Procs |-> InitCtl(p)]
    /\ issued = {}
    /\ revoked = {}
    /\ last_op \in { [op |-> "dict", fields |-> m, msg |-> <<>>, kv |-> EmptyMap] :
                       m \in CodecInputs }
    /\ sent = <<>>
    /\ lastLog = "NONE"
    /\ net = EmptyNet
    /\ fm = InitFm

\* the sender formats the dict
CodecFormat ==
    /\ last_op.op = "dict"
    /\ last_op' = [last_op EXCEPT !.op = "msg", !.msg = format_kv_message(last_op.fields)]
    /\ UNCHANGED <<now, ctl, issued, revoked, sent, lastLog, net, fm>>

\* the receiver parses the datagram
CodecParse ==
    /\ last_op.op = "msg"
    /\ last_op' = [last_op EXCEPT !.op = "kv", !.kv = parse_kv_message(last_op.msg)]
    /\ UNCHANGED <<now, ctl, issued, revoked, sent, lastLog, net, fm>>

CodecNext == CodecFormat \/ CodecParse

SpecCodec == CodecInit /\ [][CodecNext]_vars

\* a fields dict as a function from its keys to its values
DictOf(fields) ==
    [k \in { fields[i][1] : i \in 1..Len(fields) } |->
        fields[CHOOSE i \in 1..Len(fields) : fields[i][1] = k][2]]

\* C23: for every fields dict m that has at least a TYPE key,
\* parse(format(m)) equals m up to key ordering.
C23_RoundTrip ==
    last_op.op = "kv" => last_op.kv = DictOf(last_op.fields)


-----------------------------------------------------------------------------
(* Several threads call FileManager.send_file for one path.  The body runs *)
(* under FileManager._lock, so it is one step; the wall clock that         *)
(* FileTransferManager.offer_file reads advances on its own, and nothing   *)
(* makes it advance between two calls.                                     *)

MaxThreads == 3
MaxClock == 2
SendThreads == 1..MaxThreads

\* FileUtils.generate_file_id: the first 8 hex digits of md5("path:timestamp"),
\* the digest written as the text it is the digest of
generate_file_id(file_path, timestamp) == file_path \o ":" \o ToString(timestamp)

\* what FileManager.send_file returns: the file id, None when the offer failed
send_file_returns(f, to_user, file, file_id) ==
    IF file.filename = "" THEN "None"
    ELSE IF offer_file(f, to_user, file, file_id).ok THEN file_id ELSE "None"

ThrFile == CHOOSE file \in FmFiles : file.filename = "b.txt"

ThrInit ==
    /\ now = 0
    /\ ctl = [p \in Procs |-> InitCtl(p)]
    /\ issued = {}
    /\ revoked = {}
    /\ last_op = [op |-> "send_file", lock |-> 0,
                  pc |-> [t \in SendThreads |-> "start"],
                  result |-> [t \in SendThreads |-> "None"]]
    /\ sent = <<>>
    /\ lastLog = "NONE"
    /\ net = EmptyNet
    /\ fm = InitFm

\* thread t enters "with self._lock"
ThrAcquire(t) ==
    /\ last_op.pc[t] = "start"
    /\ last_op.lock = 0
    /\ last_op' = [last_op EXCEPT !.lock = t, !.pc[t] = "locked"]
    /\ UNCHANGED <<now, ctl, issued, revoked, sent, lastLog, net, fm>>

\* thread t runs the body of send_file and leaves the lock
ThrSendFile(t) ==
    /\ last_op.pc[t] = "locked"
    /\ LET file_id == generate_file_id(ThrFile.filename, now)
       IN  /\ fm' = FileManager_send_file(fm, Alice, ThrFile, file_id)
           /\ last_op' = [last_op EXCEPT
                  !.lock = 0, !.pc[t] = "done",
                  !.result[t] = send_file_returns(fm, Alice, ThrFile, file_id)]
    /\ UNCHANGED <<now, ctl, issued, revoked, sent, lastLog, net>>

\* time.time() returns a later value from now on
ThrClock ==
    /\ now < MaxClock
    /\ now' = now + 1
    /\ UNCHANGED <<ctl, issued, revoked, last_op, sent, lastLog, net, fm>>

ThrAcquires == \E t \in SendThreads : ThrAcquire(t)
ThrSends == \E t \in SendThreads : ThrSendFile(t)

ThrNext == ThrAcquires \/ ThrSends \/ ThrClock

SpecThreads == ThrInit /\ [][ThrNext]_vars

ThrAllDone == \A t \in SendThreads : last_op.pc[t] = "done"

\* C24: concurrent FileManager.send_file calls from several threads, for the
\* same path and at the same time, all succeed and return pairwise-distinct
\* file ids, each with its own transfer session.
C24_ConcurrentSendFile ==
    ThrAllDone =>
        /\ \A t \in SendThreads :
               /\ last_op.result[t] # "None"
               /\ last_op.result[t] \in DOMAIN fm.active_sessions
        /\ \A t \in SendThreads, u \in SendThreads :
               t # u => last_op.result[t] # last_op.result[u]


\* C25: every ACK waiter in the waiter map belongs to exactly one outbound
\* send operation that is still pending and is removed when that operation
\* ends, by ACK or by retry exhaustion; once no send operation is in progress
\* the waiter map is empty.
C25_BoundedWaiters ==
    \A p \in Procs : ctl[p].op.pc \in {"idle", "done"} => DOMAIN ctl[p].ack_events = {}


-----------------------------------------------------------------------------
(* Registration of waiters.                                                 *)

\* the frames whose sender waits for an ACK or a response
ReplyTypes == {"DM", "FOLLOW", "UNFOLLOW", "LIKE", "GROUP_MESSAGE", "POST", "FILE_OFFER"}

\* the identifier of a frame that its reply carries: MESSAGE_ID in an ACK,
\* FILEID in FILE_ACCEPT and FILE_REJECT; a LIKE has only its TIMESTAMP
ReplyId(kv) ==
    IF "MESSAGE_ID" \in DOMAIN kv THEN kv.MESSAGE_ID
    ELSE IF kv.TYPE = "FILE_OFFER" THEN kv.FILEID
    ELSE kv.TIMESTAMP

Waiters(c) == DOMAIN c.ack_events \cup DOMAIN c.file_response_events

\* the command thread of p has just transmitted
Transmits(p) == ctl'[p].op # ctl[p].op /\ sent' # <<>>

\* every frame just transmitted that wants a reply has its waiter in place
RegisteredFirst ==
    \A p \in Procs :
        Transmits(p) =>
            \A i \in 1..Len(sent') :
                sent'[i].kv.TYPE \in ReplyTypes => ReplyId(sent'[i].kv) \in Waiters(ctl'[p])

\* the waiter stays under the operation's identifier for the whole wait
RegisteredWhileWaiting ==
    \A p \in Procs :
        /\ ctl[p].op.pc = "wait" => ctl[p].op.message_id \in DOMAIN ctl[p].ack_events
        /\ ctl[p].op.pc = "wait_file" =>
               ctl[p].op.message_id \in DOMAIN ctl[p].file_response_events

\* a reply taken by the listener while the operation waits sets the waiter
ReplySignals ==
    \A p \in Procs :
        (/\ ctl[p].op.pc = "wait"
         /\ ctl'[p].op = ctl[p].op
         /\ lastLog' = "ACK"
         /\ ctl'[p].ack_events # ctl[p].ack_events)
        => ctl'[p].ack_events[ctl[p].op.message_id]

-----------------------------------------------------------------------------
(* Claims about the followers list, checked under SpecFollow.               *)

\* C27: followers has set semantics: receiving the same FOLLOW from the same
\* peer two or more times leaves followers as it was after the first, so
\* each peer appears at most once.
C27_FollowersIdempotent ==
    \A i \in 1..Len(ctl["A"].followers), j \in 1..Len(ctl["A"].followers) :
        i # j => ctl["A"].followers[i] # ctl["A"].followers[j]

\* the listener of A has just taken a FOLLOW (tag FOLLOWED) or an UNFOLLOW
\* (tag UNFOLLOWED): the notification is the new last entry of the inbox
FolHandled(tag) ==
    /\ Len(ctl'["A"].inbox) = Len(ctl["A"].inbox) + 1
    /\ ctl'["A"].inbox[Len(ctl'["A"].inbox)][1] = tag

\* that step answered with one ACK
FolAcked == Len(sent') = 1 /\ sent'[1].kv.TYPE = "ACK"

\* the peer the frame came from: the name in the notification, at the
\* address the ACK went to
FolSender == <<ctl'["A"].inbox[Len(ctl'["A"].inbox)][2], sent'[1].to>>

\* C28: an inbound FOLLOW adds the sender to followers, an inbound UNFOLLOW
\* removes the sender from followers, and both are ACKed in every case,
\* an UNFOLLOW from a peer that is not a follower included.
C28_FollowUnfollowHandled ==
    [][/\ FolHandled("FOLLOWED") => FolAcked /\ InList(ctl'["A"].followers, FolSender)
       /\ FolHandled("UNFOLLOWED") => FolAcked /\ ~InList(ctl'["A"].followers, FolSender)]_vars


-----------------------------------------------------------------------------
(* Requests that should change nothing: the user at A follows, unfollows,  *)
(* likes and messages bob and itself, in any order and any state.  A has   *)
(* heard bob's PROFILE or its own broadcast or both.                       *)

SelfCmdToggleLike ==
    Ready("A") /\ \E owner \in {"bob", "alice"} :
        StepAt("A", toggle_like(ctl["A"], "p1", owner), now)

SelfCmdSendDm ==
    Ready("A") /\ \E u \in {<<"bob">>, <<"alice">>}, m \in MsgIds :
        StepAt("A", send_dm(ctl["A"], u, m), now)

SelfNext ==
    \/ SendRecvProfile \/ SendRecvAck
    \/ CmdFollow \/ CmdUnfollow \/ FolCmdFollowSelf \/ FolCmdUnfollowSelf
    \/ SelfCmdToggleLike \/ SelfCmdSendDm
    \/ SendWaitAcked \/ SendWaitTimedOut

SpecSelf == SendInit /\ [][SelfNext]_vars

\* the command thread of A has just started a command
CmdStarts == Ready("A") /\ ctl'["A"].op # ctl["A"].op /\ ctl'["A"].op.t0 = now'

\* the command went on to its first transmission
CmdTransmits == CmdStarts /\ ctl'["A"].op.pc = "wait" /\ sent' # <<>>

\* the command returned at once, with a report and no frame
CmdReturns == CmdStarts /\ ctl'["A"].op.pc = "done"

SetsUnchanged ==
    /\ ctl'["A"].following = ctl["A"].following
    /\ ctl'["A"].followers = ctl["A"].followers
    /\ ctl'["A"].post_likes = ctl["A"].post_likes

\* C29: a follow of an already-followed peer, an unfollow of a peer not
\* followed, or any operation targeting the local user itself is surfaced as
\* a warning, sends no frame and leaves following, followers and the like
\* set unchanged.
C29_NoEffectRequests ==
    [][/\ CmdTransmits =>
              /\ ctl'["A"].op.to # ctl["A"].full_user_id
              /\ ctl'["A"].op.kind = "follow" => ctl'["A"].op.to \notin ctl["A"].following
              /\ ctl'["A"].op.kind = "unfollow" => ctl'["A"].op.to \in ctl["A"].following
       /\ CmdReturns => sent' = <<>> /\ SetsUnchanged]_vars


-----------------------------------------------------------------------------
(* The chunk acceptance guard, checked under SpecFM.                        *)

\* the controller's FileTransfer t became u: it took a chunk
TookChunk(t, u) == u.chunks # t.chunks \/ u.received_chunks # t.received_chunks

\* C30: a chunk is stored into a transfer, and counted towards completion,
\* only if the transfer is in progress (accepted and not finished) and the
\* chunk index lies in [0, total_chunks); a chunk with any other index or for
\* any other transfer state changes nothing.
C30_ChunkGuard ==
    [][\A id \in DOMAIN ctl["B"].active_transfers \cap DOMAIN ctl'["B"].active_transfers :
           LET t == ctl["B"].active_transfers[id]
               u == ctl'["B"].active_transfers[id]
           IN  TookChunk(t, u) =>
                   /\ t.accepted /\ ~t.completed
                   /\ DOMAIN u.chunks \subseteq 0..(t.total_chunks - 1)]_vars


-----------------------------------------------------------------------------
(* The receive loop, checked under SpecRecv.                                *)

-----------------------------------------------------------------------------
(* The two locks of the file library.  The receive thread hands file       *)
(* frames to FileManager.handle_incoming_message while the REPL thread     *)
(* calls FileManager.send_file.  FileManager._lock and                     *)
(* FileTransferManager._lock are RLocks: free (""), or held by one thread, *)
(* which may take it again.  A thread's step is what it does between two   *)
(* lock acquisitions.                                                      *)

LockIds == {"f1", "f2", "f3"}

\* the file frames alice sends: an offer of a new file, a chunk of any file
LockFrames ==
    { kv \in FmFrames : kv.TYPE \in {"FILE_OFFER", "FILE_CHUNK"} }

LockIdle == [pc |-> "idle", kv |-> <<>>, file |-> NoFile, id |-> ""]

LockInit ==
    /\ now = RecvNow
    /\ ctl = [p \in Procs |-> InitCtl(p)]
    /\ issued = {}
    /\ revoked = {}
    /\ last_op = [op |-> "locks", fm_lock |-> "", tm_lock |-> "",
                  recv |-> LockIdle, repl |-> LockIdle]
    /\ sent = <<>>
    /\ lastLog = "NONE"
    /\ net = EmptyNet
    /\ fm = InitFm

\* handle_file_offer and handle_file_chunk: the receive thread enters
\* "with self._lock" of the FileTransferManager with the frame (a chunk of
\* an unknown file returns at once, with no callback)
RecvEntersTM ==
    \E kv \in LockFrames :
        /\ last_op.recv.pc = "idle"
        /\ last_op.tm_lock = ""
        /\ kv.TYPE = "FILE_CHUNK" => kv.FILEID \in DOMAIN fm.active_transfers
        /\ last_op' = [last_op EXCEPT !.tm_lock = "recv",
                                      !.recv = [LockIdle EXCEPT !.pc = "in_tm", !.kv = kv]]
        /\ UNCHANGED <<now, ctl, issued, revoked, sent, lastLog, net, fm>>

\* _notify_callbacks inside that block calls FileManager._handle_transfer_event,
\* which enters "with self._lock" of the FileManager; the handler then runs
\* to its end and both locks are left
RecvEntersFM ==
    /\ last_op.recv.pc = "in_tm"
    /\ last_op.fm_lock \in {"", "recv"}
    /\ fm' = handle_incoming_message(fm, last_op.recv.kv, IpA)
    /\ lastLog' = IF fm' = fm THEN "FILE ERROR" ELSE last_op.recv.kv.TYPE
    /\ last_op' = [last_op EXCEPT !.tm_lock = "", !.recv = LockIdle]
    /\ UNCHANGED <<now, ctl, issued, revoked, sent, net>>

\* FileManager.send_file: the REPL thread enters "with self._lock" of the
\* FileManager
ReplEntersFM ==
    \E file \in FmFiles, id \in LockIds :
        /\ last_op.repl.pc = "idle"
        /\ last_op.fm_lock = ""
        /\ id \notin DOMAIN fm.active_sessions
        /\ last_op' = [last_op EXCEPT !.fm_lock = "repl",
                                      !.repl = [LockIdle EXCEPT !.pc = "in_fm",
                                                                !.file = file, !.id = id]]
        /\ UNCHANGED <<now, ctl, issued, revoked, sent, lastLog, net, fm>>

\* inside it, transfer_manager.offer_file enters "with self._lock" of the
\* FileTransferManager; the call then runs to its end and both locks are left
ReplEntersTM ==
    /\ last_op.repl.pc = "in_fm"
    /\ last_op.tm_lock \in {"", "repl"}
    /\ fm' = FileManager_send_file(fm, Alice, last_op.repl.file, last_op.repl.id)
    /\ last_op' = [last_op EXCEPT !.fm_lock = "", !.repl = LockIdle]
    /\ UNCHANGED <<now, ctl, issued, revoked, sent, lastLog, net>>

LockNext == RecvEntersTM \/ RecvEntersFM \/ ReplEntersFM \/ ReplEntersTM

SpecLocks == LockInit /\ [][LockNext]_vars

\* each thread holds the lock the other one waits for
LockedOnEachOther ==
    /\ last_op.recv.pc = "in_tm" /\ last_op.tm_lock = "recv"
    /\ last_op.repl.pc = "in_fm" /\ last_op.fm_lock = "repl"

\* C32: no interleaving of the receive thread's handlers with the REPL's
\* operations reaches a state in which both are blocked on each other for
\* ever: the FileManager lock and the FileTransferManager lock are never
\* taken in opposite orders by an inbound-message handler and a concurrent
\* accept, reject or send call.
C32_NoDeadlock == ~LockedOnEachOther


-----------------------------------------------------------------------------
(* Game identifiers.  The user at A invites bob to games, moves in them,   *)
(* and A's listener takes bob's invitations and results.                   *)

MaxGames == 2
GameIds == {"g0", "g1"}

InvRecvProfile ==
    StepAt("A", _listen(ctl["A"], [TYPE |-> "PROFILE", USER_ID |-> Bob,
                                   DISPLAY_NAME |-> "bob"], IpB), now)

\* "ttt bob X"
InvCmdInvite ==
    LET r == send_tictactoe_invite(ctl["A"], <<"bob">>, "X")
    IN  /\ Cardinality(DOMAIN r.c.tictactoe_games) <= MaxGames
        /\ StepAt("A", r, now)

\* "move <game> <position>"
InvCmdMove ==
    \E g \in GameIds, position \in {0, 4} :
        StepAt("A", send_tictactoe_move(ctl["A"], g, position), now)

\* bob's TICTACTOE_INVITE and TICTACTOE_RESULT frames
InvRecvGame ==
    \E ty \in {"TICTACTOE_INVITE", "TICTACTOE_RESULT"}, g \in GameIds :
        LET r == _listen(ctl["A"],
                         [TYPE |-> ty, FROM |-> Bob, TO |-> Alice, GAMEID |-> g,
                          MESSAGE_ID |-> "m1", SYMBOL |-> "X", RESULT |-> "DRAW",
                          TOKEN |-> <<Bob, now, "game">>], IpB)
        IN  /\ Cardinality(DOMAIN r.c.tictactoe_games) <= MaxGames
            /\ StepAt("A", r, now)

\* the TICTACTOE_MOVE frames bob's address can send
InvMoves ==
    { make_tictactoe_move_message(Bob, Alice, g, "m1", sym, position, 1,
                                  <<Bob, now, "game">>) :
        g \in GameIds, sym \in {"X", "O"}, position \in {0, 4} }

InvRecvMove == \E kv \in InvMoves : StepAt("A", _listen(ctl["A"], kv, IpB), now)

InvNext == InvRecvProfile \/ InvCmdInvite \/ InvCmdMove \/ InvRecvGame \/ InvRecvMove

SpecInvite == SendInit /\ [][InvNext]_vars

\* send_tictactoe_invite has just sent an invitation
InviteSent == lastLog' = "GAME INVITE SENT" /\ sent' # <<>> /\ sent'[1].kv.TYPE = "TICTACTOE_INVITE"

\* C33: each game a peer proposes gets a game_id that differs from the
\* game_id of every game currently recorded at that peer, so a new invite,
\* also after earlier games have finished and been removed, never replaces
\* or resets an existing game.
C33_FreshGameId ==
    [][InviteSent =>
          /\ sent'[1].kv.GAMEID \notin DOMAIN ctl["A"].tictactoe_games
          /\ \A g \in DOMAIN ctl["A"].tictactoe_games :
                 /\ g \in DOMAIN ctl'["A"].tictactoe_games
                 /\ ctl'["A"].tictactoe_games[g] = ctl["A"].tictactoe_games[g]]_vars


-----------------------------------------------------------------------------
(* Group message acknowledgements, checked under SpecGroup.                *)

\* the recipient bob's group_message is waiting for
GrpRecipient == ctl["B"].op.rcpts[ctl["B"].op.rcpt]

\* the GROUP_MESSAGE datagram to user u is still on the wire: u has not
\* handled it, so u has sent no ACK for it
GrpUnhandledBy(u) ==
    \E f \in net.frames : f.kv.TYPE = "GROUP_MESSAGE" /\ f.to = u[2]

\* C34: in group_message a recipient is reported as delivered only if that
\* recipient itself acknowledged the message; an ACK from one member never
\* satisfies the wait for another member.
C34_OwnAck ==
    [][(ctl["B"].op.kind = "group_message" /\ Waiting("B")
           /\ ctl'["B"].op.success = ctl["B"].op.success + 1)
          => ~GrpUnhandledBy(GrpRecipient)]_vars


-----------------------------------------------------------------------------
(* File transfer on a LAN that also duplicates datagrams.                  *)

\* the LAN duplicates a FILE_OFFER datagram: Bob's listener gets the copy
\* first, the original stays on the wire
XferReplayOffer ==
    \E f \in net.frames :
        /\ f.kv.TYPE = "FILE_OFFER"
        /\ f.kv.FILEID \notin DOMAIN ctl["B"].pending_offers
        /\ f.kv.FILEID \notin DOMAIN ctl["B"].active_transfers
        /\ DmStep(ProcOfIp(f.to), _listen(ctl[ProcOfIp(f.to)], f.kv, f.src), now, {})

\* the REPL command "sendfile bob <path>", typed once
ReplayCmdSendFile ==
    /\ ctl["A"].op.pc = "idle"
    /\ \E file \in XferFiles :
           DmStep("A", send_file(ctl["A"], <<"bob">>, file, NextFileId(ctl["A"])), now, {})

ReplayNext ==
    \/ DmRecvProfile \/ ReplayCmdSendFile \/ DmDeliver \/ DmLose \/ XferReplayOffer
    \/ XferAccept \/ XferReject \/ XferFileResponded \/ XferFileTimedOut

SpecReplay == XferInit /\ [][ReplayNext]_vars

\* a step of Bob that records an offer, accepts one or rejects one
OfferStep == ctl'["B"].pending_offers # ctl["B"].pending_offers

\* the transfers Bob accepted that hold chunks and wait for more
InProgress ==
    { id \in DOMAIN ctl["B"].active_transfers :
          /\ ctl["B"].active_transfers[id].accepted
          /\ ctl["B"].active_transfers[id].received_chunks > 0 }

\* C35: a duplicate or replayed FILE_OFFER for a FileID that was already
\* accepted and is in progress, followed by any accept or reject, never
\* discards or resets the chunks already received for that transfer.
C35_ReplayedOffer ==
    [][OfferStep =>
          \A id \in InProgress :
              /\ id \in DOMAIN ctl'["B"].active_transfers
              /\ ctl'["B"].active_transfers[id].chunks = ctl["B"].active_transfers[id].chunks]_vars


-----------------------------------------------------------------------------
(* The peer table, checked under SpecRecv.                                 *)

\* the UserID has an IP suffix
HasIpSuffix(u) == Len(u) = 2

\* C36: every peer record's ip equals the IP suffix of its UserID; a
\* PROFILE whose source IP differs from the IP suffix of its USER_ID
\* neither creates nor alters a peer record.
C36_PeerIpIsSuffix ==
    \A p \in Procs : \A u \in DOMAIN ctl[p].peer_map :
        HasIpSuffix(u) => ctl[p].peer_map[u].ip = u[2]


-----------------------------------------------------------------------------
(* Inbound moves, checked under SpecInvite.                                *)

\* the move of frame kv is not legal in c's record of the game, whoever's
\* turn it is: no such active game, not from the opponent, a position off
\* the board, an occupied cell, or not the opponent's symbol
IllegalMove(c, kv) ==
    IF kv.GAMEID \notin DOMAIN c.tictactoe_games THEN TRUE
    ELSE LET game == c.tictactoe_games[kv.GAMEID]
         IN  \/ ~game.active
             \/ kv.FROM # game.opponent
             \/ kv.POSITION \notin 0..8
             \/ (IF kv.POSITION \notin 0..8 THEN TRUE
                 ELSE game.board[kv.POSITION + 1] # " ")
             \/ kv.SYMBOL = game.my_symbol

\* C37: an inbound TICTACTOE_MOVE changes the local board only if the move
\* is legal (the game exists and is active, the frame is from the opponent,
\* the position is 0..8 and its cell empty, the symbol is the opponent's
\* and it is the opponent's turn); otherwise the game record is unchanged.
C37_OnlyLegalMoves ==
    \A kv \in InvMoves :
        IllegalMove(ctl["A"], kv) =>
            _listen(ctl["A"], kv, IpB).c.tictactoe_games = ctl["A"].tictactoe_games


-----------------------------------------------------------------------------
(* Follow and unfollow as acknowledged operations, checked under SpecSend. *)

\* A's follow or unfollow of kind k returns in this step
FollowOpReturns(k) ==
    /\ Waiting("A")
    /\ ctl["A"].op.kind = k
    /\ ctl'["A"].op.pc = "done"

\* the return is the one after the last unanswered try
TriesExhausted == ~ctl["A"].ack_events[ctl["A"].op.message_id]

\* C38: the following set changes only through an acknowledged operation:
\* when a follow or unfollow runs out of retries, following is as it was
\* before the operation (follow refused the target when it was followed,
\* unfollow when it was not); an acknowledged UNFOLLOW completes normally
\* with the target removed exactly once.
C38_AckedFollowing ==
    [][/\ (FollowOpReturns("follow") /\ TriesExhausted)
              => ctl["A"].op.to \notin ctl'["A"].following
       /\ (FollowOpReturns("unfollow") /\ TriesExhausted)
              => ctl["A"].op.to \in ctl'["A"].following
       /\ (FollowOpReturns("unfollow") /\ ~TriesExhausted)
              => (lastLog' = "UNFOLLOW SENT" /\ ctl["A"].op.to \notin ctl'["A"].following)]_vars


-----------------------------------------------------------------------------
(* Several groups at one peer: bob's listener takes the owner alice's      *)
(* GROUP_CREATE, GROUP_ADD and GROUP_REMOVE frames for two group ids.      *)

MaxHeld == 2
HeldIds == {"ga", "gb"}

\* the frames alice sends about group gid to a member list with bob in it
HeldFrames(gid) ==
    LET k == <<Alice, now, "group">>
    IN  {make_group_create_message(Alice, gid, gid, <<Bob, Carol>>, k)}
        \cup { make_group_add_message(Alice, gid, gid, add, <<Bob, Carol, Dave>>, k) :
                 add \in {<<Bob>>, <<Dave>>} }
        \cup { make_group_remove_message(Alice, gid, remove, k) :
                 remove \in {<<Bob>>, <<Carol>>} }

\* recvfrom returns frame fr at bob; last_op keeps the frame
HeldRecv(fr) ==
    LET r == _listen(ctl["B"], fr, IpA)
    IN  /\ Len(r.c.groups) <= MaxHeld
        /\ ctl' = [ctl EXCEPT !["B"] = r.c]
        /\ sent' = r.out
        /\ lastLog' = r.log
        /\ last_op' = [op |-> "recv", kv |-> fr]
        /\ UNCHANGED <<now, issued, revoked, net, fm>>

HeldRecvCreate == \E gid \in HeldIds : \E fr \in HeldFrames(gid) : fr.TYPE = "GROUP_CREATE" /\ HeldRecv(fr)
HeldRecvAdd == \E gid \in HeldIds : \E fr \in HeldFrames(gid) : fr.TYPE = "GROUP_ADD" /\ HeldRecv(fr)
HeldRecvRemove == \E gid \in HeldIds : \E fr \in HeldFrames(gid) : fr.TYPE = "GROUP_REMOVE" /\ HeldRecv(fr)

HeldNext == HeldRecvCreate \/ HeldRecvAdd \/ HeldRecvRemove

SpecHeld == RecvInit /\ [][HeldNext]_vars

\* C39: an inbound GROUP_ADD or GROUP_REMOVE naming a group_id modifies
\* only the group with that id; when the group_id is not in the local
\* table, every existing group record is unchanged.
C39_OnlyNamedGroup ==
    [][last_op'.kv.TYPE \in {"GROUP_ADD", "GROUP_REMOVE"} =>
          LET old == ctl["B"].groups
              new == ctl'["B"].groups
          IN  \A i \in 1..Len(old) :
                  old[i].group_id # last_op'.kv.GROUP_ID =>
                      \E j \in 1..Len(new) : new[j] = old[i]]_vars


-----------------------------------------------------------------------------
(* send_post beside the receive thread.  The first loop of send_post,      *)
(* "for follower_id in self.followers", is cut at each iteration: the list *)
(* iterator keeps the index of the next element (op.rcpt) and looks at the *)
(* list as it is when the iteration starts, while the receive thread       *)
(* appends to the list (FOLLOW) and removes from it (UNFOLLOW).  last_op   *)
(* keeps, for the call in progress, the peers that have been in followers  *)
(* and in peer_map since the call started.                                 *)

RacePeers == {Bob, Carol}

\* the followers that are known peers
KnownFollowers(c) == { u \in RacePeers : InList(c.followers, u) /\ u \in DOMAIN c.peer_map }

RaceInCall(c) == c.op.kind = "send_post" /\ c.op.pc # "done"

\* one step of A; the peers present throughout the call are narrowed
RaceStep(r, t) ==
    /\ ctl' = [ctl EXCEPT !["A"] = r.c]
    /\ sent' = r.out
    /\ lastLog' = r.log
    /\ now' = t
    /\ last_op' = IF RaceInCall(ctl["A"])
                  THEN [last_op EXCEPT !.steady = @ \cap KnownFollowers(r.c)]
                  ELSE IF RaceInCall(r.c) \/ r.log = "POST COMPLETE"
                  THEN [op |-> "post", steady |-> KnownFollowers(ctl["A"]) \cap KnownFollowers(r.c)]
                  ELSE last_op
    /\ UNCHANGED <<issued, revoked, net, fm>>

RaceRecvProfile ==
    \E u \in RacePeers :
        RaceStep(_listen(ctl["A"], [TYPE |-> "PROFILE", USER_ID |-> u,
                                    DISPLAY_NAME |-> u[1]], u[2]), now)

\* the receive thread takes a FOLLOW or an UNFOLLOW
RaceRecvFollow ==
    \E ty \in {"FOLLOW", "UNFOLLOW"}, u \in RacePeers :
        \E fr \in Frames(ty, u, Alice, <<u, now, ScopeOf(ty)>>) :
            LET r == _listen(ctl["A"], fr, u[2])
            IN  /\ Len(r.c.followers) <= MaxPostFollowers
                /\ RaceStep([r EXCEPT !.c.inbox = <<>>], now)

RaceRecvAck ==
    \E m \in DOMAIN ctl["A"].ack_events :
        RaceStep(_listen(ctl["A"], make_ack_message(m), IpB), now)

\* send_post up to the head of its first loop
send_post_enter(c) ==
    IF c.followers = <<>>
    THEN Res([c EXCEPT !.op = [IdleOp EXCEPT !.kind = "send_post", !.pc = "done",
                                             !.t0 = now, !.t1 = now]],
             <<>>, "POST NO FOLLOWERS")
    ELSE Res([c EXCEPT !.op = [IdleOp EXCEPT !.kind = "send_post", !.pc = "post_loop",
                                             !.t0 = now, !.t1 = now]],
             <<>>, "POST")

\* one iteration of the first loop: the iterator is exhausted when its
\* index has reached the length the list has now
send_post_iterate(c, ids) ==
    LET i == c.op.rcpt + 1
    IN  IF i > Len(c.followers) THEN PostLoopHead(c, now)
        ELSE LET follower_id == c.followers[i]
                 c1 == [c EXCEPT !.op.rcpt = i]
             IN  IF follower_id = c.full_user_id \/ follower_id \notin DOMAIN c.peer_map
                 THEN Res(c1, <<>>, "POST SKIPPED")
                 ELSE Res([c1 EXCEPT !.ack_events = Put(@, ids[i], FALSE),
                                     !.op.message_map = Put(@, follower_id, ids[i]),
                                     !.op.sends = @ + 1],
                          <<PostFrame(c, follower_id, ids[i])>>, "POST SEND")

RaceCmdSendPost ==
    /\ PostReady
    /\ now + 2 * RETRY_INTERVAL * (RETRY_COUNT - 1) <= MaxSendNow
    /\ RaceStep(send_post_enter(ctl["A"]), now)

RaceIterate ==
    /\ ctl["A"].op.pc = "post_loop"
    /\ RaceStep(send_post_iterate(ctl["A"], PostIds), now)

RaceWakeResend ==
    /\ ctl["A"].op.pc = "post_sleep_a"
    /\ RaceStep(PostResend(ctl["A"], now + RETRY_INTERVAL), now + RETRY_INTERVAL)

RaceWakeAfterResend ==
    /\ ctl["A"].op.pc = "post_sleep_b"
    /\ RaceStep(PostAfterResend(ctl["A"], now + RETRY_INTERVAL), now + RETRY_INTERVAL)

RaceNext ==
    \/ RaceRecvProfile \/ RaceRecvFollow \/ RaceRecvAck
    \/ RaceCmdSendPost \/ RaceIterate \/ RaceWakeResend \/ RaceWakeAfterResend

SpecRace == SendInit /\ [][RaceNext]_vars

\* C40: a peer that is in followers and in the peer table for the whole
\* duration of a send_post call is sent the POST at least once, and the
\* call completes with a report, whatever FOLLOW and UNFOLLOW frames from
\* other peers the receive thread handles during the call.
C40_SteadyFollowerGetsPost ==
    (ctl["A"].op.kind = "send_post" /\ lastLog = "POST COMPLETE") =>
        last_op.steady \subseteq DOMAIN ctl["A"].op.message_map

====
